---- MODULE Spec2Model ----
(***************************************************************************)
(* Telemetry ingestion pipeline of logistics-quality-monitor               *)
(* (package internal/ingestion): the Processor with its bounded channels,  *)
(* sensor workers, location worker, batch flusher and Start/Stop, the      *)
(* MQTT handlers that feed it, the validators and the metrics counters.    *)
(*                                                                         *)
(* Goroutines are threads with a program counter; one action is one        *)
(* step between two operations on shared state (a channel operation, a    *)
(* critical section of p.mu, a MetricsTracker.Update).  Pointers are       *)
(* sequences of length 0 (nil) or 1.  Floats are integers.  Times are      *)
(* integers, 0 being the zero time.  The two time-valued metrics           *)
(* (LastProcessedAt, AverageProcessingTime) are not modelled.              *)
(***************************************************************************)
EXTENDS Integers, Sequences, FiniteSets, TLC

(* ------------------------------ bounds --------------------------------- *)
\* NewProcessor's arguments and the number of payloads the broker delivers.
MaxWorkers == 2
batchSize == 2
bufferSize == 2
MaxSensorCalls == 3
MaxLocationCalls == 3
MergeSensorCalls == 2
MergeLocationCalls == 2
MaxClientCalls == 4
MaxTrackerCalls == 5
MaxListeners == 2
MaxLifeCalls == 3

(* ------------------------------ values --------------------------------- *)
Nil == <<>>
Ptr(v) == <<v>>
Deref(p) == p[1]

Min(a, b) == IF a < b THEN a ELSE b
Max(a, b) == IF a > b THEN a ELSE b

ToSet(s) == {s[i] : i \in 1..Len(s)}

\* Device ids the model uses; the strings uuid.Parse accepts.
DeviceIDs == {"d1", "d2"}
uuidParseOk(s) == s \in DeviceIDs

IsZero(t) == t = 0

NoError == "nil"

(* ----------------------------- messages -------------------------------- *)
\* A SensorDataMessage as the JSON decoder leaves it.
SensorReading == [DeviceID |-> "d1", Timestamp |-> 0,
                  Temperature |-> Ptr(20), Humidity |-> Ptr(50),
                  LightLevel |-> Nil, TiltAngle |-> Nil, ImpactG |-> Nil,
                  BatteryLevel |-> Ptr(80), SignalStrength |-> Nil]

\* The sensor payloads the broker may deliver: bytes that are no JSON, a
\* reading in range, a reading whose temperature is out of range.
SensorPayloads ==
    { [malformed |-> TRUE,  json |-> SensorReading],
      [malformed |-> FALSE, json |-> SensorReading],
      [malformed |-> FALSE, json |-> [SensorReading EXCEPT !.Temperature = Ptr(101)]] }

LocationReading(dev, lat) ==
    [DeviceID |-> dev, Timestamp |-> 0, Latitude |-> lat, Longitude |-> lat,
     Altitude |-> Nil, Speed |-> Ptr(3), Accuracy |-> Nil]

\* The location payloads the broker may deliver as its k-th: the k-th valid
\* reading carries latitude and longitude k, so that coordinates tell the
\* readings apart.
LocationPayloads(k) ==
    { [malformed |-> TRUE,  json |-> LocationReading("d1", k)],
      [malformed |-> FALSE, json |-> LocationReading("d1", k)],
      [malformed |-> FALSE, json |-> LocationReading("d2", k)],
      [malformed |-> FALSE, json |-> LocationReading("d1", 91)] }

\* ParseSensorData / ParseLocationData: json.Unmarshal, then the timestamp
\* defaults to time.Now() (any non-zero time, here 1).
ParseSensorData(payload) ==
    [err |-> payload.malformed,
     msg |-> [payload.json EXCEPT !.Timestamp = IF IsZero(@) THEN 1 ELSE @]]

ParseLocationData(payload) ==
    [err |-> payload.malformed,
     msg |-> [payload.json EXCEPT !.Timestamp = IF IsZero(@) THEN 1 ELSE @]]

OutOfRange(p, lo, hi) == p # Nil /\ (Deref(p) < lo \/ Deref(p) > hi)

\* ValidateSensorData: the offending field, or NoError.
ValidateSensorData(msg) ==
    IF msg.DeviceID = "" THEN "device_id"
    ELSE IF ~uuidParseOk(msg.DeviceID) THEN "device_id"
    ELSE IF IsZero(msg.Timestamp) THEN "timestamp"
    ELSE IF OutOfRange(msg.Temperature, -100, 100) THEN "temperature"
    ELSE IF OutOfRange(msg.Humidity, 0, 100) THEN "humidity"
    ELSE IF msg.LightLevel # Nil /\ Deref(msg.LightLevel) < 0 THEN "light_level"
    ELSE IF OutOfRange(msg.TiltAngle, 0, 180) THEN "tilt_angle"
    ELSE IF OutOfRange(msg.ImpactG, 0, 50) THEN "impact_g"
    ELSE IF OutOfRange(msg.BatteryLevel, 0, 100) THEN "battery_level"
    ELSE IF OutOfRange(msg.SignalStrength, -120, 0) THEN "signal_strength"
    ELSE NoError

\* ValidateLocationData: the offending field, or NoError.
ValidateLocationData(msg) ==
    IF msg.DeviceID = "" THEN "device_id"
    ELSE IF ~uuidParseOk(msg.DeviceID) THEN "device_id"
    ELSE IF IsZero(msg.Timestamp) THEN "timestamp"
    ELSE IF msg.Latitude < -90 \/ msg.Latitude > 90 THEN "latitude"
    ELSE IF msg.Longitude < -180 \/ msg.Longitude > 180 THEN "longitude"
    ELSE IF msg.Speed # Nil /\ Deref(msg.Speed) < 0 THEN "speed"
    ELSE NoError

\* A record built without looking at the cached location.
SensorDataRecordUnlocated(msg, location) ==
    [id |-> msg.id,
     Time |-> msg.Timestamp, DeviceID |-> msg.DeviceID,
     Temperature |-> msg.Temperature, Humidity |-> msg.Humidity,
     LightLevel |-> msg.LightLevel, TiltAngle |-> msg.TiltAngle,
     ImpactG |-> msg.ImpactG, BatteryLevel |-> msg.BatteryLevel,
     SignalStrength |-> msg.SignalStrength,
     Latitude |-> Nil, Longitude |-> Nil, Altitude |-> Nil, Speed |-> Nil]

\* The SensorDataRecord processSensorMessage builds from a message and the
\* cached location (a pointer) of its device.  id is the identity of the
\* message object, kept to follow the record through the pipeline.
NewSensorDataRecord(msg, location) ==
    [id |-> msg.id,
     Time |-> msg.Timestamp, DeviceID |-> msg.DeviceID,
     Temperature |-> msg.Temperature, Humidity |-> msg.Humidity,
     LightLevel |-> msg.LightLevel, TiltAngle |-> msg.TiltAngle,
     ImpactG |-> msg.ImpactG, BatteryLevel |-> msg.BatteryLevel,
     SignalStrength |-> msg.SignalStrength,
     Latitude  |-> IF location # Nil THEN Ptr(Deref(location).Latitude) ELSE Nil,
     Longitude |-> IF location # Nil THEN Ptr(Deref(location).Longitude) ELSE Nil,
     Altitude  |-> IF location # Nil THEN Deref(location).Altitude ELSE Nil,
     Speed     |-> IF location # Nil THEN Deref(location).Speed ELSE Nil]

(* ------------------------------ metrics -------------------------------- *)
NewMetrics == [MessagesReceived |-> 0, MessagesProcessed |-> 0,
               MessagesFailed |-> 0, RecordsInserted |-> 0,
               AlertsGenerated |-> 0, BufferSize |-> 0]

\* The closures the Processor passes to MetricsTracker.Update.
fnSensorReceived(m, chanLen) ==
    [m EXCEPT !.MessagesReceived = @ + 1, !.BufferSize = chanLen]
fnLocationReceived(m) == [m EXCEPT !.MessagesReceived = @ + 1]
fnFailed(m) == [m EXCEPT !.MessagesFailed = @ + 1]
\* A processed message counted twice.
fnProcessedTwice(m) == [m EXCEPT !.MessagesProcessed = @ + 2]
fnProcessed(m) == [m EXCEPT !.MessagesProcessed = @ + 1]
\* A failed batch counted as one failed message.
fnBatchFailedOnce(m, n) == [m EXCEPT !.MessagesFailed = @ + 1]
fnBatchFailed(m, n) == [m EXCEPT !.MessagesFailed = @ + n]
fnBatchInserted(m, n) == [m EXCEPT !.RecordsInserted = @ + n]

(* ------------------------------- state --------------------------------- *)
VARIABLES
    workerCount,    \* Processor.workerCount
    sensorChan,     \* Processor.sensorChan: the messages buffered in it
    locationChan,   \* Processor.locationChan
    sensorClosed,   \* close(p.sensorChan) has run
    locationClosed, \* close(p.locationChan) has run
    ctxDone,        \* p.ctx is cancelled
    wg,             \* Processor.wg: the WaitGroup's counter
    sensorBuffer,   \* Processor.sensorBuffer
    locationCache,  \* Processor.locationCache: device id -> pointer
    metrics,        \* MetricsTracker.metrics
    pc,             \* where each goroutine or caller stands
    cur,            \* the message (then the record) a worker holds
    batch,          \* the local slice "batch" of a running flushBatch
    alertStarted,   \* ids of the records an alert goroutine was started for
    hbStarted,      \* ids of the records a last-seen goroutine was started for
    panicked,       \* the process died of a runtime panic
    hist,           \* what the environment has seen: counts of deliveries
    handedOk,       \* records BatchInsertSensorData stored
    handedFail,     \* records BatchInsertSensorData was given and failed on
    handedTwice,    \* some record was given to BatchInsertSensorData twice
    sizes,          \* the lengths of the batches given to BatchInsertSensorData
    tickerTook,     \* a flush started by the ticker swapped out records
    accepted,       \* latitude of the last location accepted, by device
    atAccept,       \* by sensor message id: what was accepted and what was
                    \* cached for its device when the message was queued
    shipmentDB,     \* tables devices, shipments, shipping_rules: by device,
                    \* a pointer to its current shipment with its rules
    alertTask,      \* by record id: the goroutine of lines 266-285
    hbTask,         \* by record id: the goroutine of lines 288-295
    alertsTable,    \* table alerts: the alerts InsertAlert created, in order
    insertCalls,    \* the calls of InsertAlert: record id, alert, outcome
    devicesTable,   \* table devices: last_seen_at and battery_level
    cfgTopics,      \* MQTTIngestionConfig: the topic of each of its fields
    started,        \* MQTTIngestionClient.started
    subscriptions,  \* MQTTIngestionClient.subscriptions
    transportOpen,  \* the pkg/mqtt client holds a connection to the broker
    transportLog,   \* the calls made on the pkg/mqtt client, in order
    clientHist,     \* the calls of Start and Stop on the ingestion client
    mu,             \* MetricsTracker.mu: the writer and the readers holding it
    listeners,      \* MetricsTracker.listeners, each named by its position
    call,           \* by calling goroutine: its call on the MetricsTracker
    trackerCalls,   \* the number of calls made on the MetricsTracker
    expected,       \* the mutations and resets applied one after another,
                    \* in the order in which they took the lock
    seen,           \* what Snapshot returned and what listeners were given
    updates,        \* the calls of Update that have returned
    lastSeen,       \* by listener: the metrics it was last called with, or,
                    \* not called yet, those it was registered at
    reentrant,      \* the listeners whose callback calls Snapshot on the
                    \* tracker that calls them
    running,        \* by kind, the goroutines Start has started and that
                    \* have not returned, when they are counted, not named
    lifeCalls,      \* the calls of Start and Stop made on the Processor
    lateWork        \* what counted goroutines did after Stop cancelled the
                    \* context: "dequeue", "flush"

chanVars == <<sensorChan, locationChan, sensorClosed, locationClosed, ctxDone, wg>>
dataVars == <<sensorBuffer, locationCache, metrics>>
taskVars == <<alertStarted, hbStarted>>
insertVars == <<handedOk, handedFail, handedTwice, sizes, tickerTook>>
ghostVars == <<hist, accepted, atAccept>>
engineVars == <<shipmentDB, alertTask, hbTask, alertsTable, insertCalls, devicesTable>>
clientVars == <<cfgTopics, started, subscriptions, transportOpen, transportLog, clientHist>>
processorVars == <<workerCount, chanVars, sensorBuffer, locationCache, pc, cur, batch,
                   taskVars, panicked, insertVars, ghostVars>>
\* What lies outside the goroutines of processSensorMessage and their
\* tables, and outside the ingestion client.
trackerVars == <<mu, listeners, call, trackerCalls, expected, seen, updates, lastSeen, reentrant>>
lifeVars == <<running, lifeCalls, lateWork>>
nonEngineVars == <<clientVars, trackerVars, lifeVars>>
nonClientVars == <<processorVars, metrics, engineVars, trackerVars, lifeVars>>
nonTrackerVars == <<processorVars, engineVars, clientVars, lifeVars>>
outerVars == <<engineVars, nonEngineVars>>
vars == <<workerCount, chanVars, dataVars, pc, cur, batch, taskVars, panicked,
          insertVars, ghostVars, outerVars>>

WorkerIds == <<"w1", "w2", "w3", "w4">>
AllWorkers == {WorkerIds[i] : i \in 1..MaxWorkers}
Workers == {WorkerIds[i] : i \in 1..workerCount}
Flushers == AllWorkers \cup {"flusher", "stop"}
Threads == Flushers \cup {"location", "sensorHandler", "locationHandler"}

\* NewProcessor: empty buffer, cache and channels, a live context, zeroed
\* metrics; no goroutine runs.
InitProcessor ==
    /\ workerCount \in 1..MaxWorkers
    /\ sensorChan = <<>> /\ locationChan = <<>>
    /\ sensorClosed = FALSE /\ locationClosed = FALSE /\ ctxDone = FALSE
    /\ wg = 0
    /\ sensorBuffer = <<>>
    /\ locationCache = [d \in DeviceIDs |-> Nil]
    /\ metrics = NewMetrics
    /\ pc = [t \in Threads |->
               IF t \in {"sensorHandler", "locationHandler"} THEN "idle" ELSE "none"]
    /\ cur = [t \in AllWorkers \cup {"location"} |-> Nil]
    /\ batch = [t \in Flushers |-> <<>>]
    /\ alertStarted = {} /\ hbStarted = {}
    /\ panicked = FALSE
    /\ hist = [nS |-> 0, nL |-> 0, malformedS |-> 0, malformedL |-> 0, locInvalid |-> 0,
               workerRejects |-> 0, dropped |-> 0]
    /\ handedOk = {} /\ handedFail = {} /\ handedTwice = FALSE
    /\ sizes = {} /\ tickerTook = FALSE
    /\ accepted = [d \in DeviceIDs |-> 0]
    /\ atAccept = [i \in 1..MaxSensorCalls |-> [acc |-> 0, cached |-> 0]]

\* An alert goroutine that was not started: its record, the error of its
\* GetDeviceShipment call, what CheckViolations returned, and the index of
\* the alert SaveAlerts is at.
IdleTask == [pc |-> "none", record |-> Nil, lookup |-> NoError, alerts |-> <<>>,
             err |-> NoError, next |-> 1]

\* No goroutine of processSensorMessage runs and the tables alerts and
\* devices hold nothing yet.
InitTasks ==
    /\ alertTask = [i \in 1..MaxSensorCalls |-> IdleTask]
    /\ hbTask = [i \in 1..MaxSensorCalls |-> [pc |-> "none", record |-> Nil]]
    /\ alertsTable = <<>>
    /\ insertCalls = <<>>
    /\ devicesTable = [d \in DeviceIDs |-> [seen |-> FALSE, battery |-> Nil]]

\* The four topic fields of MQTTIngestionConfig, in the order Start
\* subscribes them, and the handler Start binds to each.
TopicFields == <<"SensorTopic", "LocationTopic", "StatusTopic", "HeartbeatTopic">>
TopicNames == [SensorTopic |-> "devices/sensor", LocationTopic |-> "devices/location",
               StatusTopic |-> "devices/status", HeartbeatTopic |-> "devices/heartbeat"]

\* NewMQTTIngestionClient: not started, nothing subscribed, no connection.
InitClient ==
    /\ started = FALSE
    /\ subscriptions = <<>>
    /\ transportOpen = FALSE
    /\ transportLog = <<>>
    /\ clientHist = <<>>

\* The goroutines that call the MetricsTracker, and a goroutine that is in
\* no call: fn is the closure given to Update (nil, or the closure of
\* ProcessSensorData with the channel length it reads), tmp the counter it
\* loaded, snapshot the local of Update, next the listener Update is at;
\* pre, regs, values record the metrics and the number of listeners found
\* when the lock was taken and the values handed to the listeners.
TrackerThreads == {"t1", "t2", "t3"}
IdleCall == [op |-> "none", pc |-> "idle", fn |-> Nil, tmp |-> 0,
             snapshot |-> NewMetrics, next |-> 1,
             pre |-> NewMetrics, regs |-> 0, values |-> <<>>]

\* NewMetricsTracker: zeroed metrics (set in the Processor's construction),
\* a free lock and no listener.
InitTracker ==
    /\ mu = [writer |-> "none", readers |-> {}]
    /\ listeners = <<>>
    /\ call = [t \in TrackerThreads |-> IdleCall]
    /\ trackerCalls = 0
    /\ expected = NewMetrics
    /\ seen = {}
    /\ updates = {}
    /\ lastSeen = <<>>
    /\ reentrant = {}

\* NewProcessor starts no goroutine, and nothing has been called yet.
InitLife ==
    /\ running = [sensor |-> 0, location |-> 0, flusher |-> 0]
    /\ lifeCalls = <<>>
    /\ lateWork = {}

\* The state after construction, no device having a shipment and every
\* topic configured.
Init ==
    /\ InitProcessor
    /\ InitTasks
    /\ shipmentDB = [d \in DeviceIDs |-> Nil]
    /\ InitClient
    /\ InitTracker
    /\ InitLife
    /\ cfgTopics = TopicNames

Goto(t, l) == pc' = [pc EXCEPT ![t] = l]

(* --------------------------- Start and Stop ---------------------------- *)
\* Processor.Start: wg.Add and go for every sensor worker, the location
\* worker and the batch flusher.  The owner calls it once, before Stop.
Start ==
    /\ ~panicked
    /\ pc["flusher"] = "none" /\ pc["stop"] = "none"
    /\ wg' = wg + workerCount + 2
    /\ pc' = [t \in Threads |->
                IF t \in Workers \cup {"location", "flusher"} THEN "select" ELSE pc[t]]
    /\ UNCHANGED <<workerCount, outerVars, sensorChan, locationChan, sensorClosed, locationClosed,
                   ctxDone, dataVars, cur, batch, taskVars, panicked, insertVars, ghostVars>>

\* Stop, line 88: p.cancel().
StopCancel ==
    /\ ~panicked
    /\ pc["stop"] = "none"
    /\ ctxDone' = TRUE
    /\ Goto("stop", "closeSensor")
    /\ UNCHANGED <<workerCount, outerVars, sensorChan, locationChan, sensorClosed, locationClosed, wg,
                   dataVars, cur, batch, taskVars, panicked, insertVars, ghostVars>>

\* Stop, line 91: close(p.sensorChan); closing a closed channel panics.
StopCloseSensor ==
    /\ ~panicked
    /\ pc["stop"] = "closeSensor"
    /\ IF sensorClosed
       THEN panicked' = TRUE /\ UNCHANGED <<sensorClosed, pc>>
       ELSE sensorClosed' = TRUE /\ Goto("stop", "closeLocation") /\ UNCHANGED panicked
    /\ UNCHANGED <<workerCount, outerVars, sensorChan, locationChan, locationClosed, ctxDone, wg,
                   dataVars, cur, batch, taskVars, insertVars, ghostVars>>

\* Stop, line 92: close(p.locationChan).
StopCloseLocation ==
    /\ ~panicked
    /\ pc["stop"] = "closeLocation"
    /\ IF locationClosed
       THEN panicked' = TRUE /\ UNCHANGED <<locationClosed, pc>>
       ELSE locationClosed' = TRUE /\ Goto("stop", "wait") /\ UNCHANGED panicked
    /\ UNCHANGED <<workerCount, outerVars, sensorChan, locationChan, sensorClosed, ctxDone, wg,
                   dataVars, cur, batch, taskVars, insertVars, ghostVars>>

\* Wait that does not wait.
waitReturnsAtOnce(n) == TRUE

\* sync.WaitGroup.Wait returns when the counter is zero.
waitReturns(n) == n = 0

\* Stop, line 95: p.wg.Wait(); then Stop calls flushBatch.
StopWait ==
    /\ ~panicked
    /\ pc["stop"] = "wait"
    /\ waitReturns(wg)
    /\ Goto("stop", "flush")
    /\ UNCHANGED <<workerCount, outerVars, chanVars, dataVars, cur, batch, taskVars, panicked,
                   insertVars, ghostVars>>

(* ----------------------------- flushBatch ------------------------------ *)
\* Where the caller of flushBatch goes on when it returns.
AfterFlush(t) ==
    IF t = "flusher" THEN "select" ELSE IF t = "stop" THEN "returned" ELSE "finish"

\* A flush that leaves the buffer as it is.
bufferKept(buf) == buf

\* Lines 326-328: the copy taken of the buffer, and the buffer left behind.
batchCopy(buf) == buf
bufferReset(buf) == SubSeq(buf, 1, 0)

\* flushBatch, lines 319-329, under p.mu: nothing to do on an empty buffer,
\* else copy the buffer into batch and reset it.
FlushSwap(t) ==
    /\ ~panicked
    /\ pc[t] = "flush"
    /\ IF Len(sensorBuffer) = 0
       THEN /\ Goto(t, AfterFlush(t))
            /\ UNCHANGED <<sensorBuffer, batch, tickerTook>>
       ELSE /\ batch' = [batch EXCEPT ![t] = batchCopy(sensorBuffer)]
            /\ sensorBuffer' = bufferReset(sensorBuffer)
            /\ tickerTook' = (tickerTook \/ t = "flusher")
            /\ Goto(t, "insert")
    /\ UNCHANGED <<workerCount, outerVars, chanVars, locationCache, metrics, cur, taskVars, panicked,
                   handedOk, handedFail, handedTwice, sizes, ghostVars>>

\* flushBatch, lines 336-347: BatchInsertSensorData stores the batch or
\* fails (ok is the database's answer); the metrics count the batch.
FlushInsert(t, ok) ==
    /\ ~panicked
    /\ pc[t] = "insert"
    /\ LET recs == ToSet(batch[t]) IN
       /\ handedTwice' = (handedTwice \/ recs \cap (handedOk \cup handedFail) # {}
                                      \/ Cardinality(recs) # Len(batch[t]))
       /\ sizes' = sizes \cup {Len(batch[t])}
       /\ IF ok
          THEN /\ handedOk' = handedOk \cup recs
               /\ metrics' = fnBatchInserted(metrics, Len(batch[t]))
               /\ UNCHANGED handedFail
          ELSE /\ handedFail' = handedFail \cup recs
               /\ metrics' = fnBatchFailed(metrics, Len(batch[t]))
               /\ UNCHANGED handedOk
    /\ batch' = [batch EXCEPT ![t] = <<>>]
    /\ Goto(t, AfterFlush(t))
    /\ UNCHANGED <<workerCount, outerVars, chanVars, sensorBuffer, locationCache, cur, taskVars,
                   panicked, tickerTook, ghostVars>>

\* batchFlusher, lines 307-314: a tick calls flushBatch; a cancelled
\* context ends the goroutine.
FlusherTick ==
    /\ ~panicked
    /\ pc["flusher"] = "select"
    /\ Goto("flusher", "flush")
    /\ UNCHANGED <<workerCount, outerVars, chanVars, dataVars, cur, batch, taskVars, panicked,
                   insertVars, ghostVars>>

FlusherExit ==
    /\ ~panicked
    /\ pc["flusher"] = "select"
    /\ ctxDone
    /\ wg' = wg - 1
    /\ Goto("flusher", "exited")
    /\ UNCHANGED <<workerCount, outerVars, sensorChan, locationChan, sensorClosed, locationClosed,
                   ctxDone, dataVars, cur, batch, taskVars, panicked, insertVars, ghostVars>>

(* -------------------- the handlers and the producers ------------------- *)
\* selectSend with the capacity test off by one.
selectSendOverfull(ch, closed, done) ==
    LET sendCase == IF closed THEN {"panic"}
                    ELSE IF Len(ch) <= bufferSize THEN {"send"} ELSE {}
        doneCase == IF done THEN {"done"} ELSE {}
    IN  IF sendCase \cup doneCase = {} THEN {"default"} ELSE sendCase \cup doneCase

\* The cases of "select { case ch <- msg: ...; case <-p.ctx.Done(): ...;
\* default: ... }" that may run: every ready case may be the one chosen
\* (a send on a closed channel is ready, and panics); default runs only
\* when no case is ready.
selectSend(ch, closed, done) ==
    LET sendCase == IF closed THEN {"panic"}
                    ELSE IF Len(ch) < bufferSize THEN {"send"} ELSE {}
        doneCase == IF done THEN {"done"} ELSE {}
    IN  IF sendCase \cup doneCase = {} THEN {"default"} ELSE sendCase \cup doneCase

\* Latitude of the location cached for device d, 0 when none is.
CachedLat(d) == IF locationCache[d] = Nil THEN 0 ELSE Deref(locationCache[d]).Latitude

\* handleSensorMessage: ParseSensorData, and on success ProcessSensorData
\* up to and including its select.  The metrics update of the chosen case
\* is the next step (SensorCounted).
HandleSensorMessage(payload) ==
    /\ ~panicked
    /\ pc["sensorHandler"] = "idle"
    /\ hist.nS < MaxSensorCalls
    /\ LET parsed == ParseSensorData(payload)
           msg == [id |-> hist.nS + 1] @@ parsed.msg
       IN  IF parsed.err
           THEN /\ hist' = [hist EXCEPT !.nS = @ + 1, !.malformedS = @ + 1]
                /\ UNCHANGED <<sensorChan, pc, panicked, atAccept>>
           ELSE \E o \in selectSend(sensorChan, sensorClosed, ctxDone) :
                /\ sensorChan' = IF o = "send" THEN Append(sensorChan, msg) ELSE sensorChan
                /\ panicked' = (o = "panic")
                /\ pc' = [pc EXCEPT !["sensorHandler"] =
                            IF o = "send" THEN "received"
                            ELSE IF o = "default" THEN "dropped" ELSE "idle"]
                /\ hist' = [hist EXCEPT !.nS = @ + 1,
                                        !.dropped = IF o = "default" THEN @ + 1 ELSE @]
                /\ atAccept' = IF o = "send" /\ msg.DeviceID \in DeviceIDs
                               THEN [atAccept EXCEPT ![msg.id] =
                                        [acc |-> accepted[msg.DeviceID],
                                         cached |-> CachedLat(msg.DeviceID)]]
                               ELSE atAccept
    /\ UNCHANGED <<workerCount, outerVars, locationChan, sensorClosed, locationClosed, ctxDone, wg,
                   dataVars, cur, batch, taskVars, insertVars, accepted>>

\* ProcessSensorData, lines 107-110 and 115-117: the metrics update of the
\* case the select took.
SensorCounted ==
    /\ ~panicked
    /\ pc["sensorHandler"] \in {"received", "dropped"}
    /\ metrics' = IF pc["sensorHandler"] = "received"
                  THEN fnSensorReceived(metrics, Len(sensorChan))
                  ELSE fnFailed(metrics)
    /\ Goto("sensorHandler", "idle")
    /\ UNCHANGED <<workerCount, outerVars, chanVars, sensorBuffer, locationCache, cur, batch,
                   taskVars, panicked, insertVars, ghostVars>>

\* handleLocationMessage: ParseLocationData, and on success
\* ProcessLocationData: the validation (a failure is counted at once), then
\* the select.
HandleLocationMessage(payload) ==
    /\ ~panicked
    /\ pc["locationHandler"] = "idle"
    /\ hist.nL < MaxLocationCalls
    /\ LET parsed == ParseLocationData(payload)
           msg == parsed.msg
       IN  IF parsed.err
           THEN /\ hist' = [hist EXCEPT !.nL = @ + 1, !.malformedL = @ + 1]
                /\ UNCHANGED <<locationChan, metrics, pc, panicked, accepted>>
           ELSE IF ValidateLocationData(msg) # NoError
           THEN /\ metrics' = fnFailed(metrics)
                /\ hist' = [hist EXCEPT !.nL = @ + 1, !.locInvalid = @ + 1]
                /\ UNCHANGED <<locationChan, pc, panicked, accepted>>
           ELSE \E o \in selectSend(locationChan, locationClosed, ctxDone) :
                /\ locationChan' = IF o = "send" THEN Append(locationChan, msg)
                                   ELSE locationChan
                /\ panicked' = (o = "panic")
                /\ pc' = [pc EXCEPT !["locationHandler"] =
                            IF o = "send" THEN "received"
                            ELSE IF o = "default" THEN "dropped" ELSE "idle"]
                /\ hist' = [hist EXCEPT !.nL = @ + 1,
                                        !.dropped = IF o = "default" THEN @ + 1 ELSE @]
                /\ accepted' = IF o = "send"
                               THEN [accepted EXCEPT ![msg.DeviceID] = msg.Latitude]
                               ELSE accepted
                /\ UNCHANGED metrics
    /\ UNCHANGED <<workerCount, outerVars, sensorChan, sensorClosed, locationClosed, ctxDone, wg,
                   sensorBuffer, locationCache, cur, batch, taskVars, insertVars, atAccept>>

\* ProcessLocationData, lines 133-135 and 140-142.
LocationCounted ==
    /\ ~panicked
    /\ pc["locationHandler"] \in {"received", "dropped"}
    /\ metrics' = IF pc["locationHandler"] = "received"
                  THEN fnLocationReceived(metrics)
                  ELSE fnFailed(metrics)
    /\ Goto("locationHandler", "idle")
    /\ UNCHANGED <<workerCount, outerVars, chanVars, sensorBuffer, locationCache, cur, batch,
                   taskVars, panicked, insertVars, ghostVars>>

(* ---------------------------- sensor workers --------------------------- *)
\* sensorWorker, line 154: a message is received (also from a closed
\* channel that still buffers one, and also when the context is done: the
\* select may take either ready case).
WorkerReceive(w) ==
    /\ ~panicked
    /\ pc[w] = "select"
    /\ Len(sensorChan) > 0
    /\ cur' = [cur EXCEPT ![w] = Head(sensorChan)]
    /\ sensorChan' = Tail(sensorChan)
    /\ Goto(w, "process")
    /\ UNCHANGED <<workerCount, outerVars, locationChan, sensorClosed, locationClosed, ctxDone, wg,
                   dataVars, batch, taskVars, panicked, insertVars, ghostVars>>

\* sensorWorker, lines 155-157 and 181-182: the channel is closed and
\* drained, or the context is done; the deferred wg.Done runs.
WorkerExit(w) ==
    /\ ~panicked
    /\ pc[w] = "select"
    /\ ctxDone \/ (sensorClosed /\ Len(sensorChan) = 0)
    /\ wg' = wg - 1
    /\ Goto(w, "exited")
    /\ UNCHANGED <<workerCount, outerVars, sensorChan, locationChan, sensorClosed, locationClosed,
                   ctxDone, dataVars, cur, batch, taskVars, panicked, insertVars, ghostVars>>

\* processSensorMessage without its checks.
processErrorNone(msg) == NoError

\* processSensorMessage, lines 218-226: the error it returns at once.
processError(msg) ==
    IF ValidateSensorData(msg) # NoError THEN ValidateSensorData(msg)
    ELSE IF ~uuidParseOk(msg.DeviceID) THEN "uuid"
    ELSE NoError

\* processSensorMessage returns an error; sensorWorker, lines 161-165,
\* counts the failure.
WorkerReject(w) ==
    /\ ~panicked
    /\ pc[w] = "process"
    /\ processError(cur[w]) # NoError
    /\ metrics' = fnFailed(metrics)
    /\ hist' = [hist EXCEPT !.workerRejects = @ + 1]
    /\ cur' = [cur EXCEPT ![w] = Nil]
    /\ Goto(w, "select")
    /\ UNCHANGED <<workerCount, outerVars, chanVars, sensorBuffer, locationCache, batch, taskVars,
                   panicked, insertVars, accepted, atAccept>>

\* processSensorMessage, lines 229-252: the cached location of the device
\* is read under p.mu and the record is built.
WorkerMerge(w) ==
    /\ ~panicked
    /\ pc[w] = "process"
    /\ processError(cur[w]) = NoError
    /\ cur' = [cur EXCEPT ![w] = NewSensorDataRecord(cur[w], locationCache[cur[w].DeviceID])]
    /\ Goto(w, "append")
    /\ UNCHANGED <<workerCount, outerVars, chanVars, dataVars, batch, taskVars, panicked,
                   insertVars, ghostVars>>

\* The size test of line 257 with > for >=.
shouldFlushLate(buf) == Len(buf) > batchSize

\* Line 257.
shouldFlush(buf) == Len(buf) >= batchSize

\* processSensorMessage, lines 255-263: the record is appended under p.mu;
\* a full buffer sends the worker into flushBatch.
WorkerAppend(w) ==
    /\ ~panicked
    /\ pc[w] = "append"
    /\ sensorBuffer' = Append(sensorBuffer, cur[w])
    /\ Goto(w, IF shouldFlush(sensorBuffer') THEN "flush" ELSE "finish")
    /\ UNCHANGED <<workerCount, outerVars, chanVars, locationCache, metrics, cur, batch, taskVars,
                   panicked, insertVars, ghostVars>>

\* processSensorMessage, lines 266-297, starts the two goroutines and
\* returns nil; sensorWorker, lines 167-178, counts the message.
WorkerFinish(w) ==
    /\ ~panicked
    /\ pc[w] = "finish"
    /\ alertStarted' = alertStarted \cup {cur[w].id}
    /\ hbStarted' = hbStarted \cup {cur[w].id}
    /\ alertTask' = [alertTask EXCEPT ![cur[w].id].pc = "check",
                                      ![cur[w].id].record = cur[w]]
    /\ hbTask' = [hbTask EXCEPT ![cur[w].id].pc = "update",
                                ![cur[w].id].record = cur[w]]
    /\ metrics' = fnProcessed(metrics)
    /\ cur' = [cur EXCEPT ![w] = Nil]
    /\ Goto(w, "select")
    /\ UNCHANGED <<shipmentDB, alertsTable, insertCalls, devicesTable, nonEngineVars>>
    /\ UNCHANGED <<workerCount, chanVars, sensorBuffer, locationCache, batch, panicked,
                   insertVars, ghostVars>>

(* --------------------------- location worker --------------------------- *)
LocationReceive ==
    /\ ~panicked
    /\ pc["location"] = "select"
    /\ Len(locationChan) > 0
    /\ cur' = [cur EXCEPT !["location"] = Head(locationChan)]
    /\ locationChan' = Tail(locationChan)
    /\ Goto("location", "cache")
    /\ UNCHANGED <<workerCount, outerVars, sensorChan, sensorClosed, locationClosed, ctxDone, wg,
                   dataVars, batch, taskVars, panicked, insertVars, ghostVars>>

LocationExit ==
    /\ ~panicked
    /\ pc["location"] = "select"
    /\ ctxDone \/ (locationClosed /\ Len(locationChan) = 0)
    /\ wg' = wg - 1
    /\ Goto("location", "exited")
    /\ UNCHANGED <<workerCount, outerVars, sensorChan, locationChan, sensorClosed, locationClosed,
                   ctxDone, dataVars, cur, batch, taskVars, panicked, insertVars, ghostVars>>

\* locationWorker, lines 201-203: last write wins.
cacheStore(cache, msg) == [cache EXCEPT ![msg.DeviceID] = Ptr(msg)]

LocationStore ==
    /\ ~panicked
    /\ pc["location"] = "cache"
    /\ locationCache' = cacheStore(locationCache, cur["location"])
    /\ Goto("location", "count")
    /\ UNCHANGED <<workerCount, outerVars, chanVars, sensorBuffer, metrics, cur, batch, taskVars,
                   panicked, insertVars, ghostVars>>

\* locationWorker, lines 205-207.
LocationCount ==
    /\ ~panicked
    /\ pc["location"] = "count"
    /\ metrics' = fnProcessed(metrics)
    /\ cur' = [cur EXCEPT !["location"] = Nil]
    /\ Goto("location", "select")
    /\ UNCHANGED <<workerCount, outerVars, chanVars, sensorBuffer, locationCache, batch, taskVars,
                   panicked, insertVars, ghostVars>>

(* ------------------------------ p.mu ----------------------------------- *)
\* The critical sections of the Processor with the mutex made explicit: a
\* goroutine first takes the mutex and then runs the section and releases
\* it.  A goroutine holding a mutex stands at one of LockedLabels.

\* The mutex locked around the buffer (lines 255 and 319) and the mutex
\* locked around the location cache (lines 201 and 229): both are p.mu,
\* the only mutex of the Processor.
bufferMutex == "mu"
cacheMutex == "mu"

LockedLabels == {"mergeLocked", "appendLocked", "swapLocked", "cacheLocked"}
MutexOf(label) == IF label \in {"appendLocked", "swapLocked"} THEN bufferMutex
                  ELSE cacheMutex

\* sync.Mutex: Lock returns when no goroutine holds the mutex.
MutexFree(m) == \A t \in Threads : pc[t] \in LockedLabels => MutexOf(pc[t]) # m

\* Lock on mutex m by goroutine t, which goes from label from to label to.
MutexLock(t, from, to, m) ==
    /\ ~panicked
    /\ pc[t] = from
    /\ MutexFree(m)
    /\ Goto(t, to)
    /\ UNCHANGED <<workerCount, outerVars, chanVars, dataVars, cur, batch, taskVars, panicked,
                   insertVars, ghostVars>>

\* processSensorMessage, line 229: p.mu.Lock() before the cache is read.
MergeLock(w) ==
    /\ pc[w] = "process"
    /\ processError(cur[w]) = NoError
    /\ MutexLock(w, "process", "mergeLocked", cacheMutex)

\* Lines 230-252: the cached location is read, the mutex released and the
\* record built.
MergeLocked(w) ==
    /\ ~panicked
    /\ pc[w] = "mergeLocked"
    /\ cur' = [cur EXCEPT ![w] = NewSensorDataRecord(cur[w], locationCache[cur[w].DeviceID])]
    /\ Goto(w, "append")
    /\ UNCHANGED <<workerCount, outerVars, chanVars, dataVars, batch, taskVars, panicked,
                   insertVars, ghostVars>>

\* Line 255: p.mu.Lock() before the append.
AppendLock(w) == MutexLock(w, "append", "appendLocked", bufferMutex)

\* Lines 256-263: the append, the size test and the unlock.
AppendLocked(w) ==
    /\ ~panicked
    /\ pc[w] = "appendLocked"
    /\ sensorBuffer' = Append(sensorBuffer, cur[w])
    /\ Goto(w, IF shouldFlush(sensorBuffer') THEN "flush" ELSE "finish")
    /\ UNCHANGED <<workerCount, outerVars, chanVars, locationCache, metrics, cur, batch, taskVars,
                   panicked, insertVars, ghostVars>>

\* flushBatch, line 319: p.mu.Lock().
SwapLock(w) == MutexLock(w, "flush", "swapLocked", bufferMutex)

\* flushBatch, lines 320-329, and the unlock.
SwapLocked(w) ==
    /\ ~panicked
    /\ pc[w] = "swapLocked"
    /\ IF Len(sensorBuffer) = 0
       THEN /\ Goto(w, AfterFlush(w))
            /\ UNCHANGED <<sensorBuffer, batch, tickerTook>>
       ELSE /\ batch' = [batch EXCEPT ![w] = batchCopy(sensorBuffer)]
            /\ sensorBuffer' = bufferReset(sensorBuffer)
            /\ tickerTook' = (tickerTook \/ w = "flusher")
            /\ Goto(w, "insert")
    /\ UNCHANGED <<workerCount, outerVars, chanVars, locationCache, metrics, cur, taskVars, panicked,
                   handedOk, handedFail, handedTwice, sizes, ghostVars>>

\* locationWorker, line 201: p.mu.Lock().
CacheLock == MutexLock("location", "cache", "cacheLocked", cacheMutex)

\* locationWorker, lines 202-203: the store and the unlock.
CacheLocked ==
    /\ ~panicked
    /\ pc["location"] = "cacheLocked"
    /\ locationCache' = cacheStore(locationCache, cur["location"])
    /\ Goto("location", "count")
    /\ UNCHANGED <<workerCount, outerVars, chanVars, sensorBuffer, metrics, cur, batch, taskVars,
                   panicked, insertVars, ghostVars>>

(* ---------------------------- shipping rules --------------------------- *)
\* The PostOrderRequests a provider may send: thresholds present or not,
\* temperature bounds in and out of order, a report cycle in and out of
\* range.
RuleRequests ==
    [ReportCycleSec : {5, 60},
     TempMin : {Nil, Ptr(2), Ptr(5)}, TempMax : {Nil, Ptr(3)},
     HumidityMin : {Nil, Ptr(2)}, HumidityMax : {Nil, Ptr(3)},
     LightMax : {Nil, Ptr(2)}, TiltMaxAngle : {Nil, Ptr(2)},
     ImpactThresholdG : {Nil, Ptr(2)}]

\* Rules that every request passes.
ValidateShippingRulesAny(rules) == NoError

\* ValidateShippingRules: the error code, or NoError.
ValidateShippingRules(rules) ==
    IF rules.TempMin # Nil /\ rules.TempMax # Nil
         /\ Deref(rules.TempMin) >= Deref(rules.TempMax) THEN "INVALID_RULES"
    ELSE IF rules.HumidityMin # Nil /\ rules.HumidityMax # Nil
         /\ Deref(rules.HumidityMin) >= Deref(rules.HumidityMax) THEN "INVALID_RULES"
    ELSE IF rules.ReportCycleSec < 10 \/ rules.ReportCycleSec > 300 THEN "INVALID_RULES"
    ELSE NoError

\* Service.PostOrder creates the shipping_rules row of a request only when
\* ValidateShippingRules passes it, and nothing else writes the table: the
\* rows the table can hold.
StoredRules == {r \in RuleRequests : ValidateShippingRules(r) = NoError}

\* Rules with every threshold set.
FullRules ==
    [ReportCycleSec |-> 60, TempMin |-> Ptr(2), TempMax |-> Ptr(3),
     HumidityMin |-> Ptr(2), HumidityMax |-> Ptr(3), LightMax |-> Ptr(2),
     TiltMaxAngle |-> Ptr(2), ImpactThresholdG |-> Ptr(2)]

\* The shipments a device's current_shipment_id may point at, with the
\* shipping_rules row joined to each (none, or one): a shipment in transit
\* with any rules, a shipment not in transit with none or with FullRules.
ShipmentRows ==
    [ShipmentID : {"s1"}, Status : {"in_transit"},
     Rules : {Nil} \cup {Ptr(r) : r \in StoredRules}]
    \cup [ShipmentID : {"s1"}, Status : {"order_posted", "completed"},
          Rules : {Nil, Ptr(FullRules)}]

\* GetDeviceShipment that does not filter on the shipment's status.
GetDeviceShipmentAnyStatus(db, deviceID, dbErr) ==
    IF dbErr THEN [err |-> "failed to fetch shipment info", info |-> Nil]
    ELSE IF db[deviceID] = Nil THEN [err |-> "record not found", info |-> Nil]
    ELSE LET row == Deref(db[deviceID])
             Rule(f) == IF row.Rules = Nil THEN Nil ELSE Deref(row.Rules)[f]
         IN [err |-> NoError,
             info |-> Ptr([ShipmentID |-> row.ShipmentID, ShipmentStatus |-> row.Status,
                           HasRules |-> row.Rules # Nil,
                           TempMin |-> Rule("TempMin"), TempMax |-> Rule("TempMax"),
                           HumidityMin |-> Rule("HumidityMin"),
                           HumidityMax |-> Rule("HumidityMax"),
                           LightMax |-> Rule("LightMax"),
                           TiltMaxAngle |-> Rule("TiltMaxAngle"),
                           ImpactThresholdG |-> Rule("ImpactThresholdG")])]

\* Repository.GetDeviceShipment: the query joins the device to its current
\* shipment where that is in transit, and to the shipment's rules if it has
\* any; a failed query (dbErr) and an empty result are errors.
GetDeviceShipment(db, deviceID, dbErr) ==
    IF dbErr THEN [err |-> "failed to fetch shipment info", info |-> Nil]
    ELSE IF db[deviceID] = Nil \/ Deref(db[deviceID]).Status # "in_transit"
         THEN [err |-> "record not found", info |-> Nil]
    ELSE LET row == Deref(db[deviceID])
             Rule(f) == IF row.Rules = Nil THEN Nil ELSE Deref(row.Rules)[f]
         IN [err |-> NoError,
             info |-> Ptr([ShipmentID |-> row.ShipmentID, ShipmentStatus |-> row.Status,
                           HasRules |-> row.Rules # Nil,
                           TempMin |-> Rule("TempMin"), TempMax |-> Rule("TempMax"),
                           HumidityMin |-> Rule("HumidityMin"),
                           HumidityMax |-> Rule("HumidityMax"),
                           LightMax |-> Rule("LightMax"),
                           TiltMaxAngle |-> Rule("TiltMaxAngle"),
                           ImpactThresholdG |-> Rule("ImpactThresholdG")])]

(* ----------------------------- alert engine ---------------------------- *)
\* The Alert literal of CheckViolations.  TriggerValue and ThresholdValue
\* are kept as the numbers the strings are formatted from, the threshold
\* with its label; Message repeats the two and is left out.
NewAlert(data, info, severity, violation, trigger, threshold) ==
    [Time |-> data.Time, DeviceID |-> data.DeviceID, ShipmentID |-> info.ShipmentID,
     AlertType |-> "immediate", Severity |-> severity, ViolationType |-> violation,
     TriggerValue |-> trigger, ThresholdValue |-> threshold]

\* A battery alert that is always of severity low.
batterySeverityLow(level) == "low"

\* Lines 146-149: severity of a battery alert.
batterySeverity(level) == IF level < 10 THEN "medium" ELSE "low"

\* AlertEngine.CheckViolations on the result of its GetDeviceShipment call:
\* the alerts returned (the nil slice is the empty sequence) and the error.
CheckViolations(lookup, data) ==
    IF lookup.err # NoError THEN [alerts |-> <<>>, err |-> NoError]
    ELSE IF ~Deref(lookup.info).HasRules THEN [alerts |-> <<>>, err |-> NoError]
    ELSE
    LET info == Deref(lookup.info)
        When(cond, alert) == IF cond THEN <<alert>> ELSE <<>>
        tempLow ==
            IF data.Temperature = Nil THEN <<>> ELSE
            When(info.TempMin # Nil /\ Deref(data.Temperature) < Deref(info.TempMin),
                 NewAlert(data, info, "high", "temperature", Deref(data.Temperature),
                          <<"min", Deref(info.TempMin)>>))
        tempHigh ==
            IF data.Temperature = Nil THEN <<>> ELSE
            When(info.TempMax # Nil /\ Deref(data.Temperature) > Deref(info.TempMax),
                 NewAlert(data, info, "high", "temperature", Deref(data.Temperature),
                          <<"max", Deref(info.TempMax)>>))
        humLow ==
            IF data.Humidity = Nil THEN <<>> ELSE
            When(info.HumidityMin # Nil /\ Deref(data.Humidity) < Deref(info.HumidityMin),
                 NewAlert(data, info, "medium", "humidity", Deref(data.Humidity),
                          <<"min", Deref(info.HumidityMin)>>))
        humHigh ==
            IF data.Humidity = Nil THEN <<>> ELSE
            When(info.HumidityMax # Nil /\ Deref(data.Humidity) > Deref(info.HumidityMax),
                 NewAlert(data, info, "medium", "humidity", Deref(data.Humidity),
                          <<"max", Deref(info.HumidityMax)>>))
        light ==
            IF data.LightLevel = Nil \/ info.LightMax = Nil THEN <<>> ELSE
            When(Deref(data.LightLevel) > Deref(info.LightMax),
                 NewAlert(data, info, "medium", "light", Deref(data.LightLevel),
                          <<"max", Deref(info.LightMax)>>))
        tilt ==
            IF data.TiltAngle = Nil \/ info.TiltMaxAngle = Nil THEN <<>> ELSE
            When(Deref(data.TiltAngle) > Deref(info.TiltMaxAngle),
                 NewAlert(data, info, "high", "tilt", Deref(data.TiltAngle),
                          <<"max", Deref(info.TiltMaxAngle)>>))
        impact ==
            IF data.ImpactG = Nil \/ info.ImpactThresholdG = Nil THEN <<>> ELSE
            When(Deref(data.ImpactG) > Deref(info.ImpactThresholdG),
                 NewAlert(data, info, "critical", "impact", Deref(data.ImpactG),
                          <<"max", Deref(info.ImpactThresholdG)>>))
        battery ==
            IF data.BatteryLevel = Nil THEN <<>> ELSE
            When(Deref(data.BatteryLevel) < 20,
                 NewAlert(data, info, batterySeverity(Deref(data.BatteryLevel)), "battery",
                          Deref(data.BatteryLevel), <<"", 20>>))
    IN [alerts |-> tempLow \o tempHigh \o humLow \o humHigh \o light \o tilt
                    \o impact \o battery,
        err |-> NoError]

\* The closure of line 280-282.
fnAlertsGenerated(m, n) == [m EXCEPT !.AlertsGenerated = @ + n]

\* A goroutine of processSensorMessage is identified by its record.
TaskIds == 1..MaxSensorCalls

\* The alert goroutine, line 270: CheckViolations.  Its error is always
\* nil; without alerts the goroutine is done.
AlertCheck(id, dbErr) ==
    /\ alertTask[id].pc = "check"
    /\ LET data == alertTask[id].record
           lookup == GetDeviceShipment(shipmentDB, data.DeviceID, dbErr)
           res == CheckViolations(lookup, data)
       IN alertTask' = [alertTask EXCEPT ![id].lookup = lookup.err,
                                         ![id].alerts = res.alerts,
                                         ![id].err = res.err,
                                         ![id].pc = IF res.err # NoError THEN "done"
                                                    ELSE IF Len(res.alerts) > 0
                                                    THEN "save" ELSE "done"]
    /\ UNCHANGED <<processorVars, nonEngineVars, metrics, shipmentDB, hbTask, alertsTable, insertCalls,
                   devicesTable>>

\* A SaveAlerts that gives up at the first alert it cannot insert.
saveNextUntilError(ok, next, n) == IF ok THEN next + 1 ELSE n + 1

\* SaveAlerts, lines 168-174: after an insert, failed (continue) or not,
\* the loop goes on with the next alert.
saveNext(ok, next, n) == next + 1

\* The alert goroutine in SaveAlerts: one turn of its loop, an InsertAlert
\* that creates the row (ok) or fails.  After the last alert SaveAlerts
\* returns nil.
AlertSave(id, ok) ==
    /\ alertTask[id].pc = "save"
    /\ LET t == alertTask[id]
           alert == t.alerts[t.next]
           next == saveNext(ok, t.next, Len(t.alerts))
       IN /\ insertCalls' = Append(insertCalls, [id |-> id, alert |-> alert, ok |-> ok])
          /\ alertsTable' = IF ok THEN Append(alertsTable, alert) ELSE alertsTable
          /\ alertTask' = [alertTask EXCEPT ![id].next = next,
                                            ![id].pc = IF next > Len(t.alerts)
                                                       THEN "count" ELSE "save"]
    /\ UNCHANGED <<processorVars, nonEngineVars, metrics, shipmentDB, hbTask, devicesTable>>

\* The alert goroutine, lines 277-283: SaveAlerts returned nil, the alerts
\* are counted.
AlertCount(id) ==
    /\ alertTask[id].pc = "count"
    /\ metrics' = fnAlertsGenerated(metrics, Len(alertTask[id].alerts))
    /\ alertTask' = [alertTask EXCEPT ![id].pc = "done"]
    /\ UNCHANGED <<processorVars, nonEngineVars, shipmentDB, hbTask, alertsTable, insertCalls,
                   devicesTable>>

\* Repository.UpdateDeviceLastSeen: last_seen_at, and battery_level when
\* the reading carries one.
UpdateDeviceLastSeen(table, deviceID, batteryLevel) ==
    [table EXCEPT ![deviceID] =
        [seen |-> TRUE, battery |-> IF batteryLevel # Nil THEN batteryLevel ELSE @.battery]]

\* The last-seen goroutine, lines 288-295: the update, done (ok) or failed
\* and logged.
HeartbeatUpdate(id, ok) ==
    /\ hbTask[id].pc = "update"
    /\ LET data == hbTask[id].record
       IN devicesTable' = IF ok THEN UpdateDeviceLastSeen(devicesTable, data.DeviceID,
                                                          data.BatteryLevel)
                          ELSE devicesTable
    /\ hbTask' = [hbTask EXCEPT ![id].pc = IF ok THEN "done" ELSE "failed"]
    /\ UNCHANGED <<processorVars, nonEngineVars, metrics, shipmentDB, alertTask, alertsTable, insertCalls>>

(* -------------------------- ingestion client --------------------------- *)
\* A call on the pkg/mqtt client, as the log keeps it.
TransportCall(op, topics, handler, ok) ==
    [op |-> op, topics |-> topics, handler |-> handler, ok |-> ok]

\* Every topic bound to the sensor handler.
HandlerOfSensor(field) == "handleSensorMessage"

\* Start, lines 69-92: the handler bound to the topic of each field.
HandlerOf(field) ==
    CASE field = "SensorTopic" -> "handleSensorMessage"
      [] field = "LocationTopic" -> "handleLocationMessage"
      [] field = "StatusTopic" -> "handleStatusMessage"
      [] field = "HeartbeatTopic" -> "handleHeartbeatMessage"

\* Start, lines 68-92: the subscriptions to make, one for every field
\* whose topic is not empty, in the order of the fields.
RECURSIVE SubsFrom(_, _)
SubsFrom(cfg, k) ==
    IF k > Len(TopicFields) THEN <<>>
    ELSE (IF cfg[TopicFields[k]] # ""
          THEN <<[topic |-> cfg[TopicFields[k]], handler |-> HandlerOf(TopicFields[k])]>>
          ELSE <<>>) \o SubsFrom(cfg, k + 1)
ConfiguredSubs(cfg) == SubsFrom(cfg, 1)

\* A Start that never finds the client started.
startReturnsAtOnceNever(isStarted) == FALSE

\* Start, lines 55-57: a started client returns nil at once.
startReturnsAtOnce(isStarted) == isStarted

\* The subscribe calls of Start's loop, lines 99-106, when the failAt-th
\* call fails (none if failAt is 0 or beyond the list): the calls up to
\* and including the failing one.
SubscribeCalls(subs, failAt) ==
    [k \in 1..(IF failAt \in 1..Len(subs) THEN failAt ELSE Len(subs)) |->
        TransportCall("subscribe", <<subs[k].topic>>, subs[k].handler, k # failAt)]

\* MQTTIngestionClient.Start, under c.mu from its first to its last line.
\* connectOk and failAt are the transport's answers.  clientHist keeps of
\* every call what it found (was), what the transport answered, the error
\* returned, the transport calls made and the started flag it left.
ClientStart(connectOk, failAt) ==
    LET subs == ConfiguredSubs(cfgTopics)
        failed == failAt \in 1..Len(subs)
        calls == SubscribeCalls(subs, failAt)
        Call(err, ops, after) ==
            [op |-> "Start", was |-> started, connectOk |-> connectOk,
             failed |-> failed, err |-> err, ops |-> ops, after |-> after]
    IN
    IF startReturnsAtOnce(started) THEN
        /\ clientHist' = Append(clientHist, Call(NoError, <<>>, started))
        /\ UNCHANGED <<cfgTopics, started, subscriptions, transportOpen, transportLog>>
    ELSE IF ~connectOk THEN
        /\ transportLog' = Append(transportLog, TransportCall("connect", <<>>, "", FALSE))
        /\ clientHist' = Append(clientHist,
               Call("failed to connect to MQTT broker",
                    <<TransportCall("connect", <<>>, "", FALSE)>>, FALSE))
        /\ UNCHANGED <<cfgTopics, started, subscriptions, transportOpen>>
    ELSE IF Len(subs) = 0 THEN
        /\ transportOpen' = TRUE
        /\ transportLog' = Append(transportLog, TransportCall("connect", <<>>, "", TRUE))
        /\ clientHist' = Append(clientHist,
               Call("no MQTT topics configured for ingestion",
                    <<TransportCall("connect", <<>>, "", TRUE)>>, FALSE))
        /\ UNCHANGED <<cfgTopics, started, subscriptions>>
    ELSE IF failed THEN
        LET ops == <<TransportCall("connect", <<>>, "", TRUE)>> \o calls
                   \o <<TransportCall("disconnect", <<>>, "", TRUE)>>
        IN /\ transportOpen' = FALSE
           /\ transportLog' = transportLog \o ops
           /\ subscriptions' = subscriptions
                               \o [k \in 1..(failAt - 1) |-> subs[k].topic]
           /\ clientHist' = Append(clientHist, Call("subscribe failed for topic", ops, FALSE))
           /\ UNCHANGED <<cfgTopics, started>>
    ELSE
        LET ops == <<TransportCall("connect", <<>>, "", TRUE)>> \o calls
        IN /\ transportOpen' = TRUE
           /\ transportLog' = transportLog \o ops
           /\ subscriptions' = subscriptions \o [k \in 1..Len(subs) |-> subs[k].topic]
           /\ started' = TRUE
           /\ clientHist' = Append(clientHist, Call(NoError, ops, TRUE))
           /\ UNCHANGED cfgTopics

\* MQTTIngestionClient.Stop, under c.mu.  unsubOk is the transport's answer
\* to Unsubscribe.
ClientStop(unsubOk) ==
    LET Call(ops) == [op |-> "Stop", was |-> started, connectOk |-> TRUE,
                      failed |-> FALSE, err |-> NoError, ops |-> ops,
                      after |-> FALSE]
    IN
    IF ~started THEN
        /\ clientHist' = Append(clientHist, Call(<<>>))
        /\ UNCHANGED <<cfgTopics, started, subscriptions, transportOpen, transportLog>>
    ELSE
        LET ops == (IF Len(subscriptions) > 0
                    THEN <<TransportCall("unsubscribe", subscriptions, "", unsubOk)>>
                    ELSE <<>>)
                   \o <<TransportCall("disconnect", <<>>, "", TRUE)>>
        IN /\ transportLog' = transportLog \o ops
           /\ transportOpen' = FALSE
           /\ started' = FALSE
           /\ subscriptions' = <<>>
           /\ clientHist' = Append(clientHist, Call(ops))
           /\ UNCHANGED cfgTopics

(* --------------------------- MetricsTracker ---------------------------- *)
\* t.mu.Lock() returns at once whoever holds the lock.
canLockAlways(m) == TRUE
\* t.mu.Lock() returns when no writer and no reader holds the lock.
canLock(m) == m.writer = "none" /\ m.readers = {}
\* t.mu.RLock() returns when no writer holds the lock.
canRLock(m) == m.writer = "none"

fnIsNil(fn) == fn = Nil

Calling(t, c) == call' = [call EXCEPT ![t] = c]
MayCall(t) == call[t].pc = "idle" /\ trackerCalls < MaxTrackerCalls

\* Update is called: with a nil closure it returns at once, otherwise it
\* goes on to take the lock.
UpdateCall(t, fn) ==
    /\ MayCall(t)
    /\ trackerCalls' = trackerCalls + 1
    /\ Calling(t, IF fnIsNil(fn) THEN IdleCall
                  ELSE [IdleCall EXCEPT !.op = "Update", !.pc = "lock", !.fn = fn])
    /\ UNCHANGED <<mu, listeners, expected, seen, updates, metrics, nonTrackerVars, lastSeen, reentrant>>

\* Update: t.mu.Lock().
UpdateLock(t) ==
    /\ call[t].pc = "lock"
    /\ canLock(mu)
    /\ mu' = [mu EXCEPT !.writer = t]
    /\ Calling(t, [call[t] EXCEPT !.pc = "load", !.pre = metrics,
                                  !.regs = Len(listeners)])
    /\ expected' = fnSensorReceived(expected, Deref(call[t].fn))
    /\ UNCHANGED <<listeners, trackerCalls, seen, updates, metrics, nonTrackerVars, lastSeen, reentrant>>

\* fn(&t.metrics), first statement: m.MessagesReceived++ reads the counter,
UpdateLoad(t) ==
    /\ call[t].pc = "load"
    /\ Calling(t, [call[t] EXCEPT !.pc = "store", !.tmp = metrics.MessagesReceived])
    /\ UNCHANGED <<mu, listeners, trackerCalls, expected, seen, updates, metrics,
                   nonTrackerVars, lastSeen, reentrant>>

\* and writes it back, one higher.
UpdateStore(t) ==
    /\ call[t].pc = "store"
    /\ metrics' = [metrics EXCEPT !.MessagesReceived = call[t].tmp + 1]
    /\ Calling(t, [call[t] EXCEPT !.pc = "set"])
    /\ UNCHANGED <<mu, listeners, trackerCalls, expected, seen, updates, nonTrackerVars, lastSeen, reentrant>>

\* fn(&t.metrics), second statement: m.BufferSize = len(p.sensorChan).
UpdateSet(t) ==
    /\ call[t].pc = "set"
    /\ metrics' = [metrics EXCEPT !.BufferSize = Deref(call[t].fn)]
    /\ Calling(t, [call[t] EXCEPT !.pc = "copy"])
    /\ UNCHANGED <<mu, listeners, trackerCalls, expected, seen, updates, nonTrackerVars, lastSeen, reentrant>>

\* snapshot := t.metrics
UpdateCopy(t) ==
    /\ call[t].pc = "copy"
    /\ Calling(t, [call[t] EXCEPT !.pc = "notify", !.snapshot = metrics, !.next = 1])
    /\ UNCHANGED <<mu, listeners, trackerCalls, expected, seen, updates, metrics,
                   nonTrackerVars, lastSeen, reentrant>>

\* One round of the loop over t.listeners: listener(snapshot).
UpdateNotify(t) ==
    /\ call[t].pc = "notify"
    /\ call[t].next <= Len(listeners)
    /\ listeners[call[t].next] \notin reentrant
    /\ seen' = seen \cup {[kind |-> "listener", value |-> call[t].snapshot,
                           whole |-> expected]}
    /\ Calling(t, [call[t] EXCEPT !.next = @ + 1,
                                  !.values = Append(@, <<listeners[call[t].next],
                                                         call[t].snapshot>>)])
    /\ lastSeen' = [lastSeen EXCEPT ![call[t].next] = call[t].snapshot]
    /\ UNCHANGED <<mu, listeners, trackerCalls, expected, updates, metrics,
                   nonTrackerVars, reentrant>>

\* One round of the loop with a listener that calls t.Snapshot() from its
\* callback, on the goroutine of Update: Snapshot's t.mu.RLock() returns
\* when no writer holds the lock, and the callback then reads the metrics
\* and returns; else the goroutine waits in RLock, and since the writer it
\* waits for is itself, nothing wakes it.
UpdateCallback(t) ==
    /\ call[t].pc = "notify"
    /\ call[t].next <= Len(listeners)
    /\ listeners[call[t].next] \in reentrant
    /\ lastSeen' = [lastSeen EXCEPT ![call[t].next] = call[t].snapshot]
    /\ IF canRLock(mu)
       THEN /\ seen' = seen \cup {[kind |-> "listener", value |-> call[t].snapshot,
                                   whole |-> expected],
                                  [kind |-> "snapshot", value |-> metrics,
                                   whole |-> expected]}
            /\ Calling(t, [call[t] EXCEPT !.next = @ + 1,
                                          !.values = Append(@, <<listeners[call[t].next],
                                                                 call[t].snapshot>>)])
       ELSE /\ seen' = seen \cup {[kind |-> "listener", value |-> call[t].snapshot,
                                   whole |-> expected]}
            /\ Calling(t, [call[t] EXCEPT !.pc = "callback",
                                          !.values = Append(@, <<listeners[call[t].next],
                                                                 call[t].snapshot>>)])
    /\ UNCHANGED <<mu, listeners, trackerCalls, expected, updates, metrics,
                   nonTrackerVars, reentrant>>

\* The loop is over: the deferred t.mu.Unlock() runs and Update returns.
UpdateReturn(t) ==
    /\ call[t].pc = "notify"
    /\ call[t].next > Len(listeners)
    /\ mu' = [mu EXCEPT !.writer = "none"]
    /\ updates' = updates \cup {[by |-> t, fn |-> call[t].fn, pre |-> call[t].pre,
                           regs |-> call[t].regs, values |-> call[t].values]}
    /\ Calling(t, IdleCall)
    /\ UNCHANGED <<listeners, trackerCalls, expected, seen, metrics, nonTrackerVars, lastSeen, reentrant>>

\* Snapshot: t.mu.RLock().
SnapshotRLock(t) ==
    /\ MayCall(t)
    /\ canRLock(mu)
    /\ trackerCalls' = trackerCalls + 1
    /\ mu' = [mu EXCEPT !.readers = @ \cup {t}]
    /\ Calling(t, [IdleCall EXCEPT !.op = "Snapshot", !.pc = "read"])
    /\ UNCHANGED <<listeners, expected, seen, updates, metrics, nonTrackerVars, lastSeen, reentrant>>

\* Snapshot: return t.metrics, then the deferred t.mu.RUnlock().
SnapshotReturn(t) ==
    /\ call[t].pc = "read"
    /\ seen' = seen \cup {[kind |-> "snapshot", value |-> metrics, whole |-> expected]}
    /\ mu' = [mu EXCEPT !.readers = @ \ {t}]
    /\ Calling(t, IdleCall)
    /\ UNCHANGED <<listeners, trackerCalls, expected, updates, metrics, nonTrackerVars, lastSeen, reentrant>>

\* Reset, under the write lock: t.metrics = IngestMetrics{}. No listener is
\* called.
TrackerReset(t) ==
    /\ MayCall(t)
    /\ canLock(mu)
    /\ trackerCalls' = trackerCalls + 1
    /\ metrics' = NewMetrics
    /\ expected' = NewMetrics
    /\ UNCHANGED <<mu, listeners, call, seen, updates, nonTrackerVars, lastSeen, reentrant>>

\* OnChange with a listener that is not nil, under the write lock:
\* t.listeners = append(t.listeners, listener).
OnChange(t) ==
    /\ MayCall(t)
    /\ Len(listeners) < MaxListeners
    /\ canLock(mu)
    /\ trackerCalls' = trackerCalls + 1
    /\ listeners' = Append(listeners, Len(listeners) + 1)
    /\ lastSeen' = Append(lastSeen, metrics)
    /\ UNCHANGED <<mu, call, expected, seen, updates, metrics, nonTrackerVars, reentrant>>

\* OnChange with a listener whose callback calls Snapshot.
OnChangeReentrant(t) ==
    /\ MayCall(t)
    /\ Len(listeners) < MaxListeners
    /\ canLock(mu)
    /\ trackerCalls' = trackerCalls + 1
    /\ listeners' = Append(listeners, Len(listeners) + 1)
    /\ lastSeen' = Append(lastSeen, metrics)
    /\ reentrant' = reentrant \cup {Len(listeners) + 1}
    /\ UNCHANGED <<mu, call, expected, seen, updates, metrics, nonTrackerVars>>

(* ------------------ Start and Stop called in any order ----------------- *)
\* Start and Stop hold no state of their own: the goroutines of every call
\* of Start run side by side.  Here they are counted by kind, and one round
\* of a goroutine's loop is one step.

\* The caller of Start and Stop is in neither.
CallerIdle == pc["stop"] \in {"none", "returned"}

\* Processor.Start, lines 63-82: lines 67-79 run whatever was started or
\* stopped before.
StartCall ==
    /\ ~panicked
    /\ CallerIdle
    /\ Len(lifeCalls) < MaxLifeCalls
    /\ lifeCalls' = Append(lifeCalls, "Start")
    /\ wg' = wg + workerCount + 2
    /\ running' = [sensor |-> running.sensor + workerCount,
                   location |-> running.location + 1,
                   flusher |-> running.flusher + 1]
    /\ UNCHANGED <<workerCount, sensorChan, locationChan, sensorClosed, locationClosed,
                   ctxDone, dataVars, pc, cur, batch, taskVars, panicked, insertVars,
                   ghostVars, engineVars, clientVars, trackerVars, lateWork>>

\* Processor.Stop is called, line 88: p.cancel(), which may be repeated.
\* The call goes on with StopCloseSensor.
StopCall ==
    /\ ~panicked
    /\ CallerIdle
    /\ Len(lifeCalls) < MaxLifeCalls
    /\ lifeCalls' = Append(lifeCalls, "Stop")
    /\ ctxDone' = TRUE
    /\ Goto("stop", "closeSensor")
    /\ UNCHANGED <<workerCount, sensorChan, locationChan, sensorClosed, locationClosed, wg,
                   dataVars, cur, batch, taskVars, panicked, insertVars, ghostVars,
                   engineVars, clientVars, trackerVars, running, lateWork>>

\* What a goroutine adds to lateWork by a step taken once the context is
\* cancelled.
Late(work) == IF ctxDone THEN lateWork \cup work ELSE lateWork

\* flushBatch, lines 336-347: the metrics after the insert of n records.
fnFlushed(m, n, ok) == IF ok THEN fnBatchInserted(m, n) ELSE fnBatchFailed(m, n)

\* One round of a sensorWorker, lines 152-179: its select takes the
\* receive; processSensorMessage rejects the message, or appends the
\* record and, the buffer being full, flushes it (ok is the database's
\* answer) and starts the two goroutines; the metrics count the message.
PoolSensorWorker(ok) ==
    /\ ~panicked
    /\ running.sensor > 0
    /\ Len(sensorChan) > 0
    /\ sensorChan' = Tail(sensorChan)
    /\ LET msg == Head(sensorChan) IN
       IF processError(msg) # NoError
       THEN /\ metrics' = fnFailed(metrics)
            /\ hist' = [hist EXCEPT !.workerRejects = @ + 1]
            /\ lateWork' = Late({"dequeue"})
            /\ UNCHANGED <<sensorBuffer, taskVars, handedOk, handedFail, handedTwice,
                           sizes, alertTask, hbTask>>
       ELSE LET rec == NewSensorDataRecord(msg, locationCache[msg.DeviceID])
                buf == Append(sensorBuffer, rec)
                full == shouldFlush(buf)
                recs == ToSet(batchCopy(buf))
            IN  /\ sensorBuffer' = IF full THEN bufferReset(buf) ELSE buf
                /\ handedOk' = IF full /\ ok THEN handedOk \cup recs ELSE handedOk
                /\ handedFail' = IF full /\ ~ok THEN handedFail \cup recs ELSE handedFail
                /\ handedTwice' = (handedTwice \/ (full /\ recs \cap (handedOk \cup handedFail) # {}))
                /\ sizes' = IF full THEN sizes \cup {Len(buf)} ELSE sizes
                /\ metrics' = fnProcessed(IF full THEN fnFlushed(metrics, Len(buf), ok)
                                          ELSE metrics)
                /\ alertStarted' = alertStarted \cup {rec.id}
                /\ hbStarted' = hbStarted \cup {rec.id}
                /\ alertTask' = [alertTask EXCEPT ![rec.id].pc = "check",
                                                  ![rec.id].record = rec]
                /\ hbTask' = [hbTask EXCEPT ![rec.id].pc = "update",
                                            ![rec.id].record = rec]
                /\ lateWork' = Late(IF full THEN {"dequeue", "flush"} ELSE {"dequeue"})
                /\ UNCHANGED hist
    /\ UNCHANGED <<workerCount, locationChan, sensorClosed, locationClosed, ctxDone, wg,
                   locationCache, pc, cur, batch, panicked, tickerTook, accepted, atAccept,
                   shipmentDB, alertsTable, insertCalls, devicesTable, clientVars,
                   trackerVars, running, lifeCalls>>

\* A sensorWorker returns, lines 155-157 and 181-182: the channel is closed
\* and drained, or the context is done; the deferred wg.Done runs.
PoolSensorExit ==
    /\ ~panicked
    /\ running.sensor > 0
    /\ ctxDone \/ (sensorClosed /\ Len(sensorChan) = 0)
    /\ running' = [running EXCEPT !.sensor = @ - 1]
    /\ wg' = wg - 1
    /\ UNCHANGED <<workerCount, sensorChan, locationChan, sensorClosed, locationClosed,
                   ctxDone, dataVars, pc, cur, batch, taskVars, panicked, insertVars,
                   ghostVars, engineVars, clientVars, trackerVars, lifeCalls, lateWork>>

\* A locationWorker returns, lines 195-197 and 209-210.
PoolLocationExit ==
    /\ ~panicked
    /\ running.location > 0
    /\ ctxDone \/ (locationClosed /\ Len(locationChan) = 0)
    /\ running' = [running EXCEPT !.location = @ - 1]
    /\ wg' = wg - 1
    /\ UNCHANGED <<workerCount, sensorChan, locationChan, sensorClosed, locationClosed,
                   ctxDone, dataVars, pc, cur, batch, taskVars, panicked, insertVars,
                   ghostVars, engineVars, clientVars, trackerVars, lifeCalls, lateWork>>

\* A batchFlusher takes a tick, lines 308-309, and flushBatch finds records
\* in the buffer (on an empty buffer it returns at once).
PoolFlusherTick(ok) ==
    /\ ~panicked
    /\ running.flusher > 0
    /\ Len(sensorBuffer) > 0
    /\ LET recs == ToSet(batchCopy(sensorBuffer)) IN
       /\ sensorBuffer' = bufferReset(sensorBuffer)
       /\ handedOk' = IF ok THEN handedOk \cup recs ELSE handedOk
       /\ handedFail' = IF ok THEN handedFail ELSE handedFail \cup recs
       /\ handedTwice' = (handedTwice \/ recs \cap (handedOk \cup handedFail) # {})
       /\ sizes' = sizes \cup {Len(sensorBuffer)}
       /\ metrics' = fnFlushed(metrics, Len(sensorBuffer), ok)
    /\ tickerTook' = TRUE
    /\ lateWork' = Late({"flush"})
    /\ UNCHANGED <<workerCount, chanVars, locationCache, pc, cur, batch, taskVars, panicked,
                   ghostVars, engineVars, clientVars, trackerVars, running, lifeCalls>>

\* A batchFlusher returns, lines 310-311.
PoolFlusherExit ==
    /\ ~panicked
    /\ running.flusher > 0
    /\ ctxDone
    /\ running' = [running EXCEPT !.flusher = @ - 1]
    /\ wg' = wg - 1
    /\ UNCHANGED <<workerCount, sensorChan, locationChan, sensorClosed, locationClosed,
                   ctxDone, dataVars, pc, cur, batch, taskVars, panicked, insertVars,
                   ghostVars, engineVars, clientVars, trackerVars, lifeCalls, lateWork>>

(* --------------------------- specifications ---------------------------- *)
SensorJSON == {p \in SensorPayloads : ~p.malformed}
LocationJSON(k) == {p \in LocationPayloads(k) : ~p.malformed}

\* The sensor pipeline alone: every sensor payload is JSON and no location
\* payload is delivered.
NextPipeline ==
    \/ Start
    \/ StopCancel
    \/ StopCloseSensor
    \/ StopCloseLocation
    \/ StopWait
    \/ \E t \in Flushers : FlushSwap(t)
    \/ \E t \in Flushers, ok \in BOOLEAN : FlushInsert(t, ok)
    \/ FlusherTick
    \/ FlusherExit
    \/ \E payload \in SensorJSON : HandleSensorMessage(payload)
    \/ SensorCounted
    \/ \E w \in AllWorkers : WorkerReceive(w)
    \/ \E w \in AllWorkers : WorkerExit(w)
    \/ \E w \in AllWorkers : WorkerReject(w)
    \/ \E w \in AllWorkers : WorkerMerge(w)
    \/ \E w \in AllWorkers : WorkerAppend(w)
    \/ \E w \in AllWorkers : WorkerFinish(w)
    \/ LocationExit

SpecPipeline == Init /\ [][NextPipeline]_vars

\* Backpressure alone: the processor is created and neither started nor
\* stopped; only the handlers run.
NextCreated ==
    \/ \E payload \in SensorPayloads : HandleSensorMessage(payload)
    \/ SensorCounted
    \/ \E payload \in LocationPayloads(hist.nL + 1) : HandleLocationMessage(payload)
    \/ LocationCounted

SpecCreated == Init /\ [][NextCreated]_vars

\* Start has been called and Stop has not.
Running == pc["flusher"] # "none" /\ pc["stop"] = "none"

\* Sensor and location readings meeting in a running processor: payloads
\* are delivered once Start has been called, Stop is not called, the ticker
\* does not fire, every payload is JSON and at most
\* MergeSensorCalls sensor and MergeLocationCalls location payloads are
\* delivered.
NextMerge ==
    \/ Start
    \/ \E w \in AllWorkers : FlushSwap(w)
    \/ \E w \in AllWorkers, ok \in BOOLEAN : FlushInsert(w, ok)
    \/ \E payload \in SensorJSON :
            Running /\ hist.nS < MergeSensorCalls /\ HandleSensorMessage(payload)
    \/ SensorCounted
    \/ \E payload \in LocationJSON(hist.nL + 1) :
            Running /\ hist.nL < MergeLocationCalls /\ HandleLocationMessage(payload)
    \/ LocationCounted
    \/ \E w \in AllWorkers : WorkerReceive(w)
    \/ \E w \in AllWorkers : WorkerReject(w)
    \/ \E w \in AllWorkers : WorkerMerge(w)
    \/ \E w \in AllWorkers : WorkerAppend(w)
    \/ \E w \in AllWorkers : WorkerFinish(w)
    \/ LocationReceive
    \/ LocationStore
    \/ LocationCount

SpecMerge == Init /\ [][NextMerge]_vars

\* The same meeting of sensor and location readings, with every critical
\* section of p.mu in two steps: the lock, then the section and the unlock.
NextLocks ==
    \/ Start
    \/ \E w \in AllWorkers : SwapLock(w)
    \/ \E w \in AllWorkers : SwapLocked(w)
    \/ \E w \in AllWorkers, ok \in BOOLEAN : FlushInsert(w, ok)
    \/ \E payload \in SensorJSON :
            Running /\ hist.nS < MergeSensorCalls /\ HandleSensorMessage(payload)
    \/ SensorCounted
    \/ \E payload \in LocationJSON(hist.nL + 1) :
            Running /\ hist.nL < MergeLocationCalls /\ HandleLocationMessage(payload)
    \/ LocationCounted
    \/ \E w \in AllWorkers : WorkerReceive(w)
    \/ \E w \in AllWorkers : WorkerReject(w)
    \/ \E w \in AllWorkers : MergeLock(w)
    \/ \E w \in AllWorkers : MergeLocked(w)
    \/ \E w \in AllWorkers : AppendLock(w)
    \/ \E w \in AllWorkers : AppendLocked(w)
    \/ \E w \in AllWorkers : WorkerFinish(w)
    \/ LocationReceive
    \/ CacheLock
    \/ CacheLocked
    \/ LocationCount

SpecLocks == Init /\ [][NextLocks]_vars

\* The records the alert engine is tried on: every field that a rule
\* bounds is absent, below, at or above the thresholds of RuleRequests, and
\* the battery level lies on either side of 10 and of 20.
EngineReadings ==
    [id : {1}, Time : {1}, DeviceID : {"d1"},
     Temperature : {Nil, Ptr(1), Ptr(2), Ptr(3), Ptr(4)},
     Humidity : {Nil, Ptr(1), Ptr(2), Ptr(3), Ptr(4)},
     LightLevel : {Nil, Ptr(2), Ptr(3)}, TiltAngle : {Nil, Ptr(2), Ptr(3)},
     ImpactG : {Nil, Ptr(2), Ptr(3)},
     BatteryLevel : {Nil, Ptr(9), Ptr(10), Ptr(19), Ptr(20)},
     SignalStrength : {Nil}, Latitude : {Nil}, Longitude : {Nil}, Altitude : {Nil},
     Speed : {Nil}]

\* The alert engine alone: device d1 has no current shipment or any of
\* ShipmentRows, and one alert goroutine stands before its CheckViolations
\* call with any of EngineReadings.
InitEngine ==
    /\ InitProcessor /\ workerCount = 1
    /\ \E row \in {Nil} \cup {Ptr(r) : r \in ShipmentRows} :
            shipmentDB = [d \in DeviceIDs |-> IF d = "d1" THEN row ELSE Nil]
    /\ \E data \in EngineReadings :
            alertTask = [i \in TaskIds |->
                            IF i = 1
                            THEN [IdleTask EXCEPT !.pc = "check", !.record = data]
                            ELSE IdleTask]
    /\ hbTask = [i \in TaskIds |-> [pc |-> "none", record |-> Nil]]
    /\ alertsTable = <<>>
    /\ insertCalls = <<>>
    /\ devicesTable = [d \in DeviceIDs |-> [seen |-> FALSE, battery |-> Nil]]
    /\ InitClient
    /\ InitTracker
    /\ InitLife
    /\ cfgTopics = TopicNames

NextEngine ==
    \E id \in TaskIds, dbErr \in BOOLEAN : AlertCheck(id, dbErr)

SpecEngine == InitEngine /\ [][NextEngine]_vars

\* The records the alert goroutines with SaveAlerts are tried on: up to
\* three alerts each (temperature above tempMax, impact, battery).
SaveReadings(id) ==
    [id : {id}, Time : {1}, DeviceID : {"d1"},
     Temperature : {Nil, Ptr(4)}, Humidity : {Nil}, LightLevel : {Nil},
     TiltAngle : {Nil}, ImpactG : {Nil, Ptr(3)}, BatteryLevel : {Nil, Ptr(9)},
     SignalStrength : {Nil}, Latitude : {Nil}, Longitude : {Nil}, Altitude : {Nil},
     Speed : {Nil}]

\* The shipments the alert goroutines with SaveAlerts are tried on.
SaveRows ==
    {r \in ShipmentRows : r.Rules \in {Nil, Ptr(FullRules)}}

\* Alert evaluation and persistence: device d1 has no current shipment or
\* one of SaveRows, and two alert goroutines stand before their
\* CheckViolations calls.
InitSave ==
    /\ InitProcessor /\ workerCount = 1
    /\ \E row \in {Nil} \cup {Ptr(r) : r \in SaveRows} :
            shipmentDB = [d \in DeviceIDs |-> IF d = "d1" THEN row ELSE Nil]
    /\ \E d1 \in SaveReadings(1), d2 \in SaveReadings(2) :
            alertTask = [i \in TaskIds |->
                            IF i = 1 THEN [IdleTask EXCEPT !.pc = "check", !.record = d1]
                            ELSE IF i = 2 THEN [IdleTask EXCEPT !.pc = "check", !.record = d2]
                            ELSE IdleTask]
    /\ hbTask = [i \in TaskIds |-> [pc |-> "none", record |-> Nil]]
    /\ alertsTable = <<>>
    /\ insertCalls = <<>>
    /\ devicesTable = [d \in DeviceIDs |-> [seen |-> FALSE, battery |-> Nil]]
    /\ InitClient
    /\ InitTracker
    /\ InitLife
    /\ cfgTopics = TopicNames

NextSave ==
    \/ \E id \in TaskIds, dbErr \in BOOLEAN : AlertCheck(id, dbErr)
    \/ \E id \in TaskIds, ok \in BOOLEAN : AlertSave(id, ok)
    \/ \E id \in TaskIds : AlertCount(id)

SpecSave == InitSave /\ [][NextSave]_vars

\* The side tasks of a running processor: device d1 has no current
\* shipment or one in transit under FullRules (which the reading of
\* SensorReading violates twice); at most MergeSensorCalls sensor payloads
\* are delivered once Start has been called, every payload is JSON, Stop is
\* not called and the ticker does not fire.
InitSideTasks ==
    /\ InitProcessor
    /\ InitTasks
    /\ \E row \in {Nil, Ptr([ShipmentID |-> "s1", Status |-> "in_transit",
                              Rules |-> Ptr(FullRules)])} :
            shipmentDB = [d \in DeviceIDs |-> IF d = "d1" THEN row ELSE Nil]
    /\ InitClient
    /\ InitTracker
    /\ InitLife
    /\ cfgTopics = TopicNames

NextSideTasks ==
    \/ Start
    \/ \E w \in AllWorkers : FlushSwap(w)
    \/ \E w \in AllWorkers, ok \in BOOLEAN : FlushInsert(w, ok)
    \/ \E payload \in SensorJSON :
            Running /\ hist.nS < MergeSensorCalls /\ HandleSensorMessage(payload)
    \/ SensorCounted
    \/ \E w \in AllWorkers : WorkerReceive(w)
    \/ \E w \in AllWorkers : WorkerReject(w)
    \/ \E w \in AllWorkers : WorkerMerge(w)
    \/ \E w \in AllWorkers : WorkerAppend(w)
    \/ \E w \in AllWorkers : WorkerFinish(w)
    \/ \E id \in TaskIds, dbErr \in BOOLEAN : AlertCheck(id, dbErr)
    \/ \E id \in TaskIds, ok \in BOOLEAN : AlertSave(id, ok)
    \/ \E id \in TaskIds : AlertCount(id)
    \/ \E id \in TaskIds, ok \in BOOLEAN : HeartbeatUpdate(id, ok)

SpecSideTasks == InitSideTasks /\ [][NextSideTasks]_vars

\* The ingestion client alone: any of the four topics may be left empty,
\* and Start and Stop are called at most MaxClientCalls times, in any order
\* and with any answers of the transport.
InitClientAlone ==
    /\ InitProcessor /\ workerCount = 1
    /\ InitTasks
    /\ shipmentDB = [d \in DeviceIDs |-> Nil]
    /\ InitClient
    /\ InitTracker
    /\ InitLife
    /\ cfgTopics \in [DOMAIN TopicNames -> {""} \cup {TopicNames[f] : f \in DOMAIN TopicNames}]
    /\ \A f \in DOMAIN TopicNames : cfgTopics[f] \in {"", TopicNames[f]}

NextClient ==
    \/ \E connectOk \in BOOLEAN, failAt \in 0..Len(TopicFields) :
            /\ Len(clientHist) < MaxClientCalls
            /\ ClientStart(connectOk, failAt)
            /\ UNCHANGED nonClientVars
    \/ \E unsubOk \in BOOLEAN :
            /\ Len(clientHist) < MaxClientCalls
            /\ ClientStop(unsubOk)
            /\ UNCHANGED nonClientVars

SpecClient == InitClientAlone /\ [][NextClient]_vars

\* The MetricsTracker alone: three goroutines make at most MaxTrackerCalls
\* calls of Update, Snapshot, Reset and OnChange between them, at any
\* moments; Update is given nil or the closure of ProcessSensorData.
TrackerFns == {Nil, Ptr(1), Ptr(2)}

NextTracker ==
    \/ \E t \in TrackerThreads, fn \in TrackerFns : UpdateCall(t, fn)
    \/ \E t \in TrackerThreads : UpdateLock(t)
    \/ \E t \in TrackerThreads : UpdateLoad(t)
    \/ \E t \in TrackerThreads : UpdateStore(t)
    \/ \E t \in TrackerThreads : UpdateSet(t)
    \/ \E t \in TrackerThreads : UpdateCopy(t)
    \/ \E t \in TrackerThreads : UpdateNotify(t)
    \/ \E t \in TrackerThreads : UpdateReturn(t)
    \/ \E t \in TrackerThreads : SnapshotRLock(t)
    \/ \E t \in TrackerThreads : SnapshotReturn(t)
    \/ \E t \in TrackerThreads : TrackerReset(t)
    \/ \E t \in TrackerThreads : OnChange(t)

SpecTracker == Init /\ [][NextTracker]_vars

\* The MetricsTracker with listeners that read it: as above, and a listener
\* registered may be one whose callback calls Snapshot.
NextReentrant ==
    \/ NextTracker
    \/ \E t \in TrackerThreads : OnChangeReentrant(t)
    \/ \E t \in TrackerThreads : UpdateCallback(t)

SpecReentrant == Init /\ [][NextReentrant]_vars

\* The lifecycle: the owner calls Start and Stop at most MaxLifeCalls times
\* in any order, one call after the other, while sensor payloads that are
\* JSON arrive; no location payload is delivered.
NextLifecycle ==
    \/ StartCall
    \/ StopCall
    \/ StopCloseSensor
    \/ StopCloseLocation
    \/ StopWait
    \/ FlushSwap("stop")
    \/ \E ok \in BOOLEAN : FlushInsert("stop", ok)
    \/ \E payload \in SensorJSON : HandleSensorMessage(payload)
    \/ SensorCounted
    \/ \E ok \in BOOLEAN : PoolSensorWorker(ok)
    \/ PoolSensorExit
    \/ PoolLocationExit
    \/ \E ok \in BOOLEAN : PoolFlusherTick(ok)
    \/ PoolFlusherExit

SpecLifecycle == Init /\ [][NextLifecycle]_vars

(* ------------------------------- claims -------------------------------- *)
\* Calls of ProcessSensorData, and calls of ProcessLocationData with a
\* valid reading, made so far.
SensorCalls == hist.nS - hist.malformedS
LocationCalls == hist.nL - hist.malformedL - hist.locInvalid

\* No metrics update of a handler is pending.
HandlersIdle == pc["sensorHandler"] = "idle" /\ pc["locationHandler"] = "idle"

\* C1: once Stop has returned, a call of ProcessSensorData does not panic.
\* The select of such a call may take the send on the closed channel.
C1_NoPanicAfterStop == pc["stop"] = "returned" => ~panicked

\* C2: while the processor is neither started nor stopped, no channel holds
\* more than bufferSize messages, and after K calls of ProcessSensorData and
\* L calls of ProcessLocationData with valid readings the metrics count
\* min(K, bufferSize) + min(L, bufferSize) messages received and one
\* failure for every other call (and for every invalid location reading).
C2_DropOnFull ==
    (pc["flusher"] = "none" /\ pc["stop"] = "none") =>
        /\ Len(sensorChan) <= bufferSize
        /\ Len(locationChan) <= bufferSize
        /\ HandlersIdle =>
            /\ metrics.MessagesReceived =
                   Min(SensorCalls, bufferSize) + Min(LocationCalls, bufferSize)
            /\ metrics.MessagesFailed =
                   Max(0, SensorCalls - bufferSize) + Max(0, LocationCalls - bufferSize)
                   + hist.locInvalid
            /\ Len(sensorChan) = Min(SensorCalls, bufferSize)
            /\ Len(locationChan) = Min(LocationCalls, bufferSize)

\* More calls than either channel has room for: one message dropped on each.
C2_Witness ==
    /\ pc["flusher"] = "none" /\ pc["stop"] = "none" /\ HandlersIdle
    /\ SensorCalls > bufferSize /\ LocationCalls > bufferSize
    /\ metrics.MessagesFailed = 2

\* The records in a batch that a running flushBatch has swapped out and
\* not yet given to BatchInsertSensorData.
Pending == UNION {ToSet(batch[t]) : t \in Flushers}
Handed == handedOk \cup handedFail
\* Every record that was appended to the buffer.
Appended == ToSet(sensorBuffer) \cup Pending \cup Handed
\* The ids of the records appended: a worker past its append holds one, and
\* a worker done with a message has started its goroutines.
AppendedIds ==
    alertStarted \cup {cur[w].id : w \in {x \in AllWorkers : pc[x] \in {"flush", "insert", "finish"}}}
Gone(t) == pc[t] \in {"none", "exited"}

\* C3: when Stop returns, the sensor workers, the location worker and the
\* flusher have exited, the buffer is empty and every record ever appended
\* has been given to BatchInsertSensorData.
C3_StopDrains ==
    pc["stop"] = "returned" =>
        /\ \A t \in AllWorkers \cup {"location", "flusher"} : Gone(t)
        /\ wg = 0
        /\ sensorBuffer = <<>>
        /\ Pending = {}
        /\ \A i \in AppendedIds : \E r \in Handed : r.id = i

\* Stop returned after a single worker appended: without a tick, a batch
\* shorter than batchSize is the final flush's.
C3_Witness ==
    /\ pc["stop"] = "returned" /\ pc["w1"] = "exited"
    /\ workerCount = 1 /\ ~tickerTook
    /\ 1 \in sizes /\ batchSize > 1

\* No flush stands between its swap and its insert, and no worker between
\* its append and its flush.
Settled ==
    /\ \A t \in Flushers : batch[t] = <<>>
    /\ \A w \in AllWorkers : pc[w] # "flush"

\* C4 as claimed: once batchSize readings are appended (and the flushes
\* they set off are done), some batch of exactly batchSize records was
\* given to BatchInsertSensorData, whatever the workers and the ticker did.
C4_ExactBatchAlways ==
    (Settled /\ Cardinality(Appended) >= batchSize) => batchSize \in sizes

\* C4, amended: if no flush started by the ticker took records, then once
\* batchSize readings are appended some batch of at least batchSize records
\* was given to BatchInsertSensorData, of exactly batchSize with a single
\* sensor worker; and RecordsInserted is the number of records stored.
C4_FullBatchWithoutTick ==
    /\ (Settled /\ Cardinality(Appended) >= batchSize /\ ~tickerTook) =>
          /\ \E n \in sizes : n >= batchSize
          /\ workerCount = 1 => batchSize \in sizes
    /\ metrics.RecordsInserted = Cardinality(handedOk)

\* Two workers appended before the first of them flushed: the batch given
\* to BatchInsertSensorData holds batchSize + 1 records, all stored.
C4_Witness ==
    /\ Settled /\ ~tickerTook /\ workerCount > 1
    /\ batchSize + 1 \in sizes
    /\ metrics.RecordsInserted = batchSize + 1

NoDuplicates(q) == Cardinality(ToSet(q)) = Len(q)

\* A step in which a flushBatch finds the buffer empty.
EmptyFlushStep == \E t \in Flushers : pc[t] = "flush" /\ pc'[t] # "flush" /\ sensorBuffer = <<>>

\* Every appended record is in exactly one place (the buffer, one
\* swapped-out batch, or the records given to BatchInsertSensorData, and
\* these it reaches once), and no empty batch is given to
\* BatchInsertSensorData.
C5_State ==
    /\ ~handedTwice
    /\ 0 \notin sizes
    /\ NoDuplicates(sensorBuffer)
    /\ \A t \in Flushers :
          /\ NoDuplicates(batch[t])
          /\ ToSet(batch[t]) \cap (ToSet(sensorBuffer) \cup Handed) = {}
          /\ \A u \in Flushers \ {t} : ToSet(batch[t]) \cap ToSet(batch[u]) = {}
    /\ ToSet(sensorBuffer) \cap Handed = {}
    /\ \A i \in AppendedIds : Cardinality({r \in Appended : r.id = i}) = 1

\* C5: every appended record is at all times in exactly one of the buffer,
\* one swapped-out batch and the records given to BatchInsertSensorData,
\* which it reaches once; no empty batch is given to BatchInsertSensorData,
\* and a flush that finds the buffer empty changes neither the buffer, a
\* batch, the metrics nor what was inserted.
C5_FlushHandsOffOnce ==
    /\ []C5_State
    /\ [][EmptyFlushStep =>
            UNCHANGED <<sensorBuffer, batch, metrics, insertVars>>]_vars

\* Two flushes hold a swapped-out batch at the same time.
C5_Witness ==
    \E t, u \in Flushers : t # u /\ batch[t] # <<>> /\ batch[u] # <<>>

\* C6: a batch of n records whose insert fails adds n to MessagesFailed
\* and nothing to RecordsInserted, and its records are gone: they are not
\* in the buffer, not in a batch on its way and not among the stored.
C6_FailedBatchDiscarded ==
    /\ (pc["sensorHandler"] # "dropped" /\ pc["locationHandler"] # "dropped") =>
          metrics.MessagesFailed =
              hist.dropped + hist.workerRejects + hist.locInvalid + Cardinality(handedFail)
    /\ metrics.RecordsInserted = Cardinality(handedOk)
    /\ ~handedTwice
    /\ handedFail \cap (ToSet(sensorBuffer) \cup Pending \cup handedOk) = {}

\* A batch of at least two records failed and nothing was stored.
C6_Witness ==
    /\ Cardinality(handedFail) >= 2 /\ 1 \notin sizes
    /\ metrics.MessagesFailed = Cardinality(handedFail)
    /\ handedOk = {}

\* C7: every rejected payload (JSON that does not parse, a sensor reading
\* the worker's validation rejects, a location reading ProcessLocationData
\* rejects) adds one to MessagesFailed: with the dropped messages and the
\* failed batches these are all the failures counted.
C7_RejectedCounted ==
    (pc["sensorHandler"] # "dropped" /\ pc["locationHandler"] # "dropped") =>
        metrics.MessagesFailed =
            hist.malformedS + hist.malformedL + hist.workerRejects + hist.locInvalid
            + hist.dropped + Cardinality(handedFail)

\* C8: no reading that ValidateSensorData rejects is on the sensor channel.
C8_ValidatedBeforeQueued ==
    \A i \in 1..Len(sensorChan) : ValidateSensorData(sensorChan[i]) = NoError

\* The message a record was built from, as far as validation reads it.
MessageOf(r) ==
    [DeviceID |-> r.DeviceID, Timestamp |-> r.Time, Temperature |-> r.Temperature,
     Humidity |-> r.Humidity, LightLevel |-> r.LightLevel, TiltAngle |-> r.TiltAngle,
     ImpactG |-> r.ImpactG, BatteryLevel |-> r.BatteryLevel,
     SignalStrength |-> r.SignalStrength]

\* The records the workers have built: those appended, and those a worker
\* is about to append.
Built == Appended \cup {cur[w] : w \in {x \in AllWorkers : pc[x] \in {"append", "flush", "insert", "finish"}}}

\* Steps in which a reading is rejected.
SensorRejectStep == hist'.workerRejects = hist.workerRejects + 1
LocationRejectStep == hist'.locInvalid = hist.locInvalid + 1

\* No record is built from an invalid sensor reading and no goroutine is
\* started for one; no invalid location reading is on the location channel
\* or in the cache.
C9_State ==
    /\ \A r \in Built : ValidateSensorData(MessageOf(r)) = NoError
    /\ \A i \in alertStarted \cup hbStarted : \E r \in Built : r.id = i
    /\ \A i \in 1..Len(locationChan) : ValidateLocationData(locationChan[i]) = NoError
    /\ \A d \in DeviceIDs :
          locationCache[d] # Nil => ValidateLocationData(Deref(locationCache[d])) = NoError

\* C9: no record is built from an invalid sensor reading and no goroutine
\* is started for one; no invalid location reading is on the location
\* channel or in the cache; and the step that rejects a reading changes the
\* metrics by MessagesFailed + 1 and nothing else of the processor.
C9_NoPartialApply ==
    /\ []C9_State
    /\ [][(SensorRejectStep \/ LocationRejectStep) =>
            /\ metrics' = [metrics EXCEPT !.MessagesFailed = @ + 1]
            /\ UNCHANGED <<chanVars, sensorBuffer, locationCache, batch, taskVars,
                           insertVars>>]_vars

\* A worker rejected a sensor reading and ProcessLocationData rejected a
\* location reading.
C9_Witness == hist.workerRejects > 0 /\ hist.locInvalid > 0 /\ metrics.MessagesFailed = 2

\* C10 as claimed: a record built for a sensor reading carries the
\* coordinates of the location last accepted for its device before the
\* reading was accepted, or of a later one.
C10_CarriesAcceptedLocation ==
    \A r \in Built :
        atAccept[r.id].acc > 0 =>
            /\ r.Latitude # Nil /\ Deref(r.Latitude) >= atAccept[r.id].acc
            /\ r.Longitude # Nil /\ Deref(r.Longitude) >= atAccept[r.id].acc

\* C10, amended: a record built for a sensor reading carries the
\* coordinates of the location that was in the cache for its device when
\* the reading was accepted, or of a later one.
C10_CarriesCachedLocation ==
    \A r \in Built :
        atAccept[r.id].cached > 0 =>
            /\ r.Latitude # Nil /\ Deref(r.Latitude) >= atAccept[r.id].cached
            /\ r.Longitude # Nil /\ Deref(r.Longitude) >= atAccept[r.id].cached

\* A record that carries a later location than the one cached when its
\* reading was accepted.
C10_Witness ==
    \E r \in Built :
        /\ atAccept[r.id].cached > 0
        /\ r.Latitude # Nil /\ Deref(r.Latitude) > atAccept[r.id].cached

(* ----------------------- claims: the alert engine ---------------------- *)
\* The alert goroutines whose CheckViolations call has returned.
Checked == {i \in TaskIds : alertTask[i].pc \in {"save", "count", "done"}}

\* The device has a current shipment in transit that has rules.
HasContext(d) ==
    /\ shipmentDB[d] # Nil
    /\ Deref(shipmentDB[d]).Status = "in_transit"
    /\ Deref(shipmentDB[d]).Rules # Nil
RulesOf(d) == Deref(Deref(shipmentDB[d]).Rules)

\* The goroutine's CheckViolations found the context of its device.
Evaluated(i) ==
    /\ i \in Checked
    /\ alertTask[i].lookup = NoError
    /\ HasContext(alertTask[i].record.DeviceID)

AlertsOfType(i, violation) ==
    {k \in 1..Len(alertTask[i].alerts) : alertTask[i].alerts[k].ViolationType = violation}

\* The reading has a temperature outside [tempMin, tempMax], both defined.
TemperatureOutside(data, rules) ==
    /\ rules.TempMin # Nil /\ rules.TempMax # Nil /\ data.Temperature # Nil
    /\ \/ Deref(data.Temperature) < Deref(rules.TempMin)
       \/ Deref(data.Temperature) > Deref(rules.TempMax)

\* C11: when the device's in-transit shipment has rules with tempMin and
\* tempMax and the reading's temperature is outside [tempMin, tempMax],
\* CheckViolations (its lookup having succeeded) returns exactly one alert
\* of violation type temperature, and that alert has severity high.
C11_OneTemperatureAlert ==
    \A i \in TaskIds :
        (Evaluated(i) /\ TemperatureOutside(alertTask[i].record,
                                            RulesOf(alertTask[i].record.DeviceID))) =>
            /\ Cardinality(AlertsOfType(i, "temperature")) = 1
            /\ \A k \in AlertsOfType(i, "temperature") :
                    alertTask[i].alerts[k].Severity = "high"

\* A reading above tempMax and one below tempMin have each been evaluated
\* to one temperature alert; here the one above.
C11_Witness ==
    \E i \in TaskIds :
        /\ Evaluated(i)
        /\ TemperatureOutside(alertTask[i].record, RulesOf(alertTask[i].record.DeviceID))
        /\ Deref(alertTask[i].record.Temperature) >
               Deref(RulesOf(alertTask[i].record.DeviceID).TempMax)
        /\ Cardinality(AlertsOfType(i, "temperature")) = 1

\* A present value strictly below, or strictly above, a present threshold.
Below(v, threshold) == v # Nil /\ threshold # Nil /\ Deref(v) < Deref(threshold)
Above(v, threshold) == v # Nil /\ threshold # Nil /\ Deref(v) > Deref(threshold)

\* The alerts a reading calls for under given rules: violation type,
\* severity and the bound violated.
ExpectedAlerts(data, rules) ==
    LET If(cond, x) == IF cond THEN {x} ELSE {}
    IN If(Below(data.Temperature, rules.TempMin), <<"temperature", "high", "min">>)
       \cup If(Above(data.Temperature, rules.TempMax), <<"temperature", "high", "max">>)
       \cup If(Below(data.Humidity, rules.HumidityMin), <<"humidity", "medium", "min">>)
       \cup If(Above(data.Humidity, rules.HumidityMax), <<"humidity", "medium", "max">>)
       \cup If(Above(data.LightLevel, rules.LightMax), <<"light", "medium", "max">>)
       \cup If(Above(data.TiltAngle, rules.TiltMaxAngle), <<"tilt", "high", "max">>)
       \cup If(Above(data.ImpactG, rules.ImpactThresholdG), <<"impact", "critical", "max">>)
       \cup If(data.BatteryLevel # Nil /\ Deref(data.BatteryLevel) < 10,
               <<"battery", "medium", "">>)
       \cup If(data.BatteryLevel # Nil /\ Deref(data.BatteryLevel) >= 10
                   /\ Deref(data.BatteryLevel) < 20,
               <<"battery", "low", "">>)

CallsOf(i) ==
    LET Mine(c) == c.id = i IN SelectSeq(insertCalls, Mine)

\* C12: when the device has no current shipment, or one that is not in
\* transit, or an in-transit one without rules, CheckViolations returns no
\* alert and a nil error, whatever the reading carries, and the goroutine
\* ends without an InsertAlert call for the reading.
C12_NoContextNoAlert ==
    \A i \in Checked :
        ~HasContext(alertTask[i].record.DeviceID) =>
            /\ alertTask[i].alerts = <<>>
            /\ alertTask[i].err = NoError
            /\ alertTask[i].pc = "done"
            /\ CallsOf(i) = <<>>

\* A reading with battery level 9 of a device whose shipment is completed
\* (and has rules) was evaluated to nothing, its lookup having found no row.
C12_Witness ==
    \E i \in Checked :
        /\ alertTask[i].record.BatteryLevel = Ptr(9)
        /\ shipmentDB[alertTask[i].record.DeviceID] # Nil
        /\ Deref(shipmentDB[alertTask[i].record.DeviceID]).Status = "completed"
        /\ Deref(shipmentDB[alertTask[i].record.DeviceID]).Rules # Nil
        /\ alertTask[i].lookup = "record not found"
        /\ alertTask[i].alerts = <<>>

\* The alerts InsertAlert was called with and created, in the order of
\* the calls.
Created ==
    LET Ok(c) == c.ok
        okCalls == SelectSeq(insertCalls, Ok)
    IN [k \in 1..Len(okCalls) |-> okCalls[k].alert]

\* C14: the InsertAlert calls of a SaveAlerts are the alerts of its list
\* in list order, one call per alert up to the alert the loop is at and
\* all of them once the loop is over, whether earlier calls failed or not;
\* and the table holds exactly the alerts of the successful calls, once
\* per call.
C14_SaveAttemptsAll ==
    /\ \A i \in TaskIds :
          LET t == alertTask[i]
              calls == CallsOf(i)
          IN /\ Len(calls) = (IF t.pc = "save" THEN t.next - 1
                              ELSE IF t.pc \in {"count", "done"} THEN Len(t.alerts)
                              ELSE 0)
             /\ \A k \in 1..Len(calls) : calls[k].alert = t.alerts[k]
    /\ alertsTable = Created

\* A SaveAlerts of three alerts is over: its first insert failed and its
\* second and third succeeded.
C14_Witness ==
    \E i \in TaskIds :
        /\ alertTask[i].pc \in {"count", "done"}
        /\ Len(alertTask[i].alerts) = 3
        /\ Len(CallsOf(i)) = 3
        /\ ~CallsOf(i)[1].ok /\ CallsOf(i)[2].ok /\ CallsOf(i)[3].ok

(* ------------------------ claims: the side tasks ----------------------- *)
\* The records whose goroutines were started.
Spawned == {i \in TaskIds : alertTask[i].pc # "none"}

\* A step of an alert goroutine or of a last-seen goroutine.
SideTaskStep ==
    \E i \in TaskIds :
        \/ alertTask[i].pc # "none" /\ alertTask'[i] # alertTask[i]
        \/ hbTask[i].pc # "none" /\ hbTask'[i] # hbTask[i]

\* Whatever its goroutines have done, a reading whose goroutines were
\* started has its record appended and is counted once as processed, and
\* the failures counted are the dropped, the rejected and the failed
\* batches alone.
C15_State ==
    /\ \A i \in Spawned :
          /\ hbTask[i].pc # "none"
          /\ \E r \in Appended : r.id = i
    /\ metrics.MessagesProcessed = Cardinality(Spawned)
    /\ HandlersIdle =>
          metrics.MessagesFailed =
              hist.dropped + hist.workerRejects + Cardinality(handedFail)

\* C15: a valid reading's record is appended, it is counted once in
\* MessagesProcessed and not in MessagesFailed whatever its alert and
\* last-seen goroutines do, and no step of these goroutines changes the
\* two counters, the buffer, the channels or where a worker stands: the
\* worker does not wait for them.
C15_SideTasksApart ==
    /\ []C15_State
    /\ [][SideTaskStep =>
            /\ metrics'.MessagesProcessed = metrics.MessagesProcessed
            /\ metrics'.MessagesFailed = metrics.MessagesFailed
            /\ UNCHANGED processorVars]_vars

\* The second reading is processed, an insert of its alerts and its
\* last-seen update having failed, while the goroutines of the first
\* reading have not made a step; both readings are counted as processed
\* and none as failed.
C15_Witness ==
    /\ alertTask[1].pc = "check" /\ hbTask[1].pc = "update"
    /\ alertTask[2].pc = "done" /\ hbTask[2].pc = "failed"
    /\ \E k \in 1..Len(insertCalls) : ~insertCalls[k].ok
    /\ metrics.MessagesProcessed = 2 /\ metrics.MessagesFailed = 0

\* No alert goroutine and no last-seen goroutine has a step left.
SideTasksQuiet ==
    \A i \in TaskIds :
        /\ alertTask[i].pc \in {"none", "done"}
        /\ hbTask[i].pc \in {"none", "done", "failed"}

\* C16: once the side tasks are through, AlertsGenerated is the number of
\* alerts InsertAlert created.
C16_AlertsGeneratedArePersisted ==
    SideTasksQuiet => metrics.AlertsGenerated = Len(alertsTable)

(* --------------------- claims: the ingestion client -------------------- *)
\* The call of Start or Stop that a step makes.
ClientCallStep == Len(clientHist') = Len(clientHist) + 1
ThisCall == clientHist'[Len(clientHist')]

\* C17: Start on a started client returns nil, Stop on a client that is
\* not started returns, and neither makes a call on the transport nor
\* changes the started flag or the subscription list; Stop on a started
\* client leaves started false and the subscription list empty, whether
\* the unsubscribe succeeded or not.
C17_RedundantCallsAreNoOps ==
    [][ClientCallStep =>
        /\ (ThisCall.op = "Start" /\ started) =>
               /\ ThisCall.err = NoError
               /\ UNCHANGED <<started, subscriptions, transportOpen, transportLog>>
        /\ (ThisCall.op = "Stop" /\ ~started) =>
               UNCHANGED <<started, subscriptions, transportOpen, transportLog>>
        /\ (ThisCall.op = "Stop" /\ started) =>
               ~started' /\ subscriptions' = <<>>]_vars

\* Stop was called on a client not started, Start on a started client,
\* and Stop on a started client whose unsubscribe failed.
C17_Witness ==
    /\ \E k \in 1..Len(clientHist) : clientHist[k].op = "Stop" /\ ~clientHist[k].was
    /\ \E k \in 1..Len(clientHist) : clientHist[k].op = "Start" /\ clientHist[k].was
    /\ \E k \in 1..Len(clientHist) :
          /\ clientHist[k].op = "Stop" /\ clientHist[k].was
          /\ \E j \in 1..Len(clientHist[k].ops) :
                clientHist[k].ops[j].op = "unsubscribe" /\ ~clientHist[k].ops[j].ok
    /\ ~started /\ subscriptions = <<>>

\* The fields whose topic is configured, and the handler of each field.
ConfiguredFields == {f \in DOMAIN cfgTopics : cfgTopics[f] # ""}
OwnHandler == [SensorTopic |-> "handleSensorMessage",
               LocationTopic |-> "handleLocationMessage",
               StatusTopic |-> "handleStatusMessage",
               HeartbeatTopic |-> "handleHeartbeatMessage"]

PostMutation(u) == fnSensorReceived(u.pre, Deref(u.fn))

\* C19: Update is atomic with respect to every concurrent Update, Reset and
\* Snapshot. Whatever a Snapshot returned or a listener was given is the
\* result of whole mutations and resets applied one after another, never a
\* half-applied one; whenever no Update holds the lock the metrics are that
\* result, so no update is lost and k Updates adding 1 leave the counter k
\* higher; and every Update that returned has called each listener that
\* was registered exactly once, in order, with the metrics as its own
\* mutation left them.
C19_UpdateIsAtomic ==
    /\ \A e \in seen : e.value = e.whole
    /\ mu.writer = "none" => metrics = expected
    /\ \A u \in updates :
            /\ Len(u.values) = u.regs
            /\ \A i \in 1..u.regs : u.values[i] = <<i, PostMutation(u)>>

\* Two goroutines have each completed an Update that added 1 while a
\* listener was registered, a third holds the lock in its own Update and
\* has called a listener, and a Snapshot has returned a counter above 0.
C19_Witness ==
    /\ Len(listeners) > 0
    /\ \E u1, u2 \in updates :
            /\ u1.by # u2.by
            /\ u1.regs > 0 /\ u2.regs > 0
            /\ u2.pre.MessagesReceived = u1.pre.MessagesReceived + 1
    /\ \E t \in TrackerThreads : mu.writer = t /\ call[t].next > 1
    /\ \E e \in seen : e.kind = "snapshot" /\ e.value.MessagesReceived > 0


\* C20: whatever calls of Start and Stop are made, at most workerCount
\* sensor workers, one location worker and one batch flusher run at any
\* time, and once Stop has been called no worker and no flusher dequeues a
\* message or flushes the buffer.
C20_LifecycleBounded ==
    /\ running.sensor <= workerCount
    /\ running.location <= 1
    /\ running.flusher <= 1
    /\ lateWork = {}

\* C30: a Start that returned an error leaves no open connection and an
\* empty subscription list, and the list never holds a topic twice.
C30_FailedStartLeavesClean ==
    /\ \/ clientHist = <<>>
       \/ LET last == clientHist[Len(clientHist)] IN
          last.op = "Start" /\ last.err # NoError
              => ~transportOpen /\ subscriptions = <<>>
    /\ NoDuplicates(subscriptions)

\* A step of Stop at one of its two close statements: no payload is
\* delivered by it.
StopCloseStep == pc["stop"] \in {"closeSensor", "closeLocation"} /\ hist' = hist

\* C28: a call of Stop does not panic, whatever calls of Start and Stop
\* came before it; a second Stop closes no channel that is closed already.
C28_StopIdempotent == [][StopCloseStep /\ ~panicked => ~panicked']_vars

\* No call on the MetricsTracker is in progress.
TrackerIdle ==
    /\ mu = [writer |-> "none", readers |-> {}]
    /\ \A t \in TrackerThreads : call[t].pc = "idle"

\* C23: when no operation is in progress, every registered listener was
\* last called with the metrics a Snapshot would return now, whether an
\* Update or a Reset changed them last.
C23_ListenersFollowEveryChange ==
    TrackerIdle => \A l \in 1..Len(listeners) : lastSeen[l] = metrics

\* C29: Update terminates and releases its lock also when a listener reads
\* the tracker from its callback: no goroutine is left in a callback
\* waiting for the lock that its own Update holds.
C29_ListenerCannotBlockUpdate ==
    \A t \in TrackerThreads : ~(call[t].pc = "callback" /\ mu.writer = t)

\* No call of ProcessSensorData is in progress and no sensor worker holds a
\* message it has dequeued.
QueueAtRest ==
    /\ pc["sensorHandler"] = "idle"
    /\ \A w \in AllWorkers : pc[w] \in {"none", "select", "exited"}

\* C22: whenever no ProcessSensorData call and no dequeue is in progress,
\* BufferSize is the number of messages waiting on the sensor channel; it
\* is 0 again once the workers have drained the queue.
C22_BufferSizeIsQueueDepth == QueueAtRest => metrics.BufferSize = Len(sensorChan)

\* A goroutine holds the mutex of the buffer, in the append or in the swap
\* of flushBatch, and none is inside a critical section of the cache.
BufferLockHeldAlone ==
    /\ \E w \in AllWorkers : pc[w] \in {"appendLocked", "swapLocked"}
    /\ \A t \in Threads : pc[t] \notin {"mergeLocked", "cacheLocked"}

\* C21: no lock covers both the buffer and the cache. While a goroutine
\* holds the lock of the buffer, the lock of the cache is free: the
\* location worker can take it and store a location, and a sensor worker
\* can take it and read the cache.
C21_SeparateLocks == BufferLockHeldAlone => MutexFree(cacheMutex)

\* C25: Reset not being called, MessagesProcessed never exceeds
\* MessagesReceived: no message is counted as processed before it is
\* counted as received.
C25_ProcessedAtMostReceived == metrics.MessagesProcessed <= metrics.MessagesReceived

\* The calls of ProcessSensorData and of ProcessLocationData made so far:
\* every payload that parsed.
ProcessCalls == (hist.nS - hist.malformedS) + (hist.nL - hist.malformedL)

\* The queues are drained, the buffer is flushed, every goroutine waits in
\* its select and no handler has a metrics update pending.
Quiescent ==
    /\ HandlersIdle
    /\ sensorChan = <<>> /\ locationChan = <<>>
    /\ sensorBuffer = <<>>
    /\ \A t \in Flushers : batch[t] = <<>>
    /\ \A w \in AllWorkers : pc[w] = "select"
    /\ pc["location"] = "select"

BufferWithin(limit) ==
    /\ Len(sensorBuffer) <= limit
    /\ \A n \in sizes : 1 <= n /\ n <= limit

Stopped ==
    /\ pc["stop"] = "returned" /\ pc["flusher"] = "exited"
    /\ HandlersIdle /\ ~panicked

\* C24: no accepted sensor message is lost. When everything has come to
\* rest after Stop, every message counted in MessagesReceived was given to
\* BatchInsertSensorData in some batch or was counted as failed by its
\* worker, also the messages that waited on the channel when Stop was
\* called.
C24_NoSilentLoss ==
    Stopped => metrics.MessagesReceived = Cardinality(Handed) + hist.workerRejects


====
